---- MODULE Spec2Model ----
(***************************************************************************)
(* A model of star_ray_pygame: the View (window, background watcher, input *)
(* queue, event conversion) of src/star_ray_pygame/view.py and the render  *)
(* surface (document, letterboxing transform) of                           *)
(* src/star_ray_pygame/cairosurface.py, and the SVGAmbient of              *)
(* src/star_ray_pygame/ambient.py.                                         *)
(*                                                                         *)
(* Python floats are modelled as exact rationals <<numerator, denominator>> *)
(* in lowest terms with a positive denominator; Python ints as integers.   *)
(***************************************************************************)
EXTENDS Integers, Sequences, FiniteSets, TLC

VARIABLES
    window_config,  \* View._window_config: [width, height] (title and flags are fixed)
    window,         \* View._window: id of the pygame window the view draws to
    pwc_window,     \* View._pwc_window: id of the OS window the pywinctl handle is bound to
    closed,         \* View._closed
    surface,        \* View._surface: the CairoSVGSurface's fields
    toolkit_up,     \* pygame is initialised (pygame.init() .. pygame.quit())
    os_window,      \* the window the OS shows: [id, size, position, active]
    watchdogs,      \* ids of the OS windows whose pywinctl watchdog thread is running
    queue,          \* the pygame event queue (pygame.event.post / pygame.event.get)
    pc,             \* position of the host (polling) thread
    batch,          \* the samples pygame.event.get() handed to the get_events call that
                    \* is running or, if the last step was its return, has just returned
    events,         \* the list get_events returned, if the last step was its return
    logged,         \* the _LOGGER.exception calls of that get_events
    op,             \* the last step taken: [name, arg, outcome]
    inputs,         \* number of inputs (posted samples, resizes, updates) so far
    enqueued,       \* history: number of samples the watcher callbacks have posted
    delivered,      \* history: uids of the watcher samples whose events get_events returned
    ambient,        \* the SVGAmbient: its root svg attributes and its fields
    call,           \* the last call on the ambient: [name, arg, outcome, exception, n]
    host            \* the WindowConfiguration objects the host holds, and which object
                    \* View._window_config is

vars == <<window_config, window, pwc_window, closed, surface, toolkit_up, os_window,
          watchdogs, queue, pc, batch, events, logged, op, inputs, enqueued, delivered,
          ambient, call, host>>

\* ------------------------------------------------------------------ bounds

\* inputs of one run: the samples the OS and the watcher post, the window_size
\* assignments and the update calls of the host
MaxInputs == 3

\* ------------------------------------------------------- rational numbers

Abs(n) == IF n < 0 THEN -n ELSE n

RECURSIVE GCD(_, _)
GCD(a, b) == IF b = 0 THEN a ELSE GCD(b, a % b)

\* n/d in lowest terms, d > 0
Rat(n, d) ==
    LET g == GCD(Abs(n), d) IN <<n \div g, d \div g>>

R(n) == <<n, 1>>
RAdd(a, b) == Rat(a[1] * b[2] + b[1] * a[2], a[2] * b[2])
RSub(a, b) == Rat(a[1] * b[2] - b[1] * a[2], a[2] * b[2])
RMul(a, b) == Rat(a[1] * b[1], a[2] * b[2])
\* a / b for b # 0
RDiv(a, b) ==
    IF b[1] > 0 THEN Rat(a[1] * b[2], a[2] * b[1])
    ELSE Rat(-(a[1] * b[2]), a[2] * (-b[1]))
RLe(a, b) == a[1] * b[2] <= b[1] * a[2]
RMin(a, b) == IF RLe(a, b) THEN a ELSE b
RHalf(a) == Rat(a[1], 2 * a[2])
\* int(math.ceil(v))
Ceil(v) == -((-v[1]) \div v[2])
\* int(v): truncation toward zero
Trunc(v) == IF v[1] >= 0 THEN v[1] \div v[2] ELSE -((-v[1]) \div v[2])

\* --------------------------------------------------- documents (lxml trees)

\* Element.get(attr, None) on a missing attribute
None == [none |-> TRUE]
\* an attribute whose text is the decimal numeral of the rational v
Num(v) == [num |-> v]
\* an attribute whose text is no numeral
Text(s) == [str |-> s]

IsNone(a) == "none" \in DOMAIN a
IsNum(a) == "num" \in DOMAIN a

\* node.get(attr, None)
Get(node, attr) ==
    IF attr \in DOMAIN node.attrib THEN node.attrib[attr] ELSE None

\* int(text): succeeds on an integer numeral only ("12.5", "abc" and None raise)
IntOk(a) == IsNum(a) /\ a.num[2] = 1
IntOf(a) == a.num[1]
\* float(text): succeeds on every numeral (text that is no numeral and None raise)
FloatOk(a) == IsNum(a)
FloatOf(a) == a.num

SVG == "{http://www.w3.org/2000/svg}svg"
G == "{http://www.w3.org/2000/svg}g"
RECT == "{http://www.w3.org/2000/svg}rect"
CIRCLE == "{http://www.w3.org/2000/svg}circle"

\* tag.endswith("svg"), on the tags the model's documents use
TagEndsWithSvg(tag) == tag \in {SVG, "svg"}

Node(tag, attrib, children) == [tag |-> tag, attrib |-> attrib, children |-> children]

\* ET.fromstring("""<svg xmlns="http://www.w3.org/2000/svg"></svg>""")
EmptySvgTree == Node(SVG, <<>>, <<>>)

\* ET.tostring(tree, method="c14n2", with_comments=False): the canonical bytes of
\* the tree; the model's trees hold no comments and no attribute order
tostring(tree) == [c14n2 |-> tree]

\* --------------------------------------------------------------- hit-testing

Ok(v) == [ok |-> TRUE, value |-> v]
Raise(e) == [ok |-> FALSE, error |-> e]

\* parse_transform: the transform attribute is modelled by what the three regular
\* expressions find in it: [scale |-> the floats inside scale(...), <<>> without a
\* match, rotate |-> rotate(...) matched, translate |-> translate(...) matched]
parse_transform(transform) ==
    IF IsNone(transform)
    THEN [scale |-> <<R(1), R(1)>>, rotation |-> FALSE, translate |-> FALSE]
    ELSE LET t == transform.transform
             scale == IF Len(t.scale) = 0 THEN <<R(1), R(1)>>
                      ELSE IF Len(t.scale) = 1 THEN <<t.scale[1], t.scale[1]>>
                      ELSE t.scale
         IN [scale |-> scale, rotation |-> t.rotate, translate |-> t.translate]

\* one axis of in_svg: returns [ok, isin, coord]
InSvgAxis(pos, extent, scale, coord) ==
    IF IsNone(pos) THEN [ok |-> TRUE, isin |-> TRUE, coord |-> coord]
    ELSE IF ~FloatOk(pos) \/ scale[1] = 0 THEN [ok |-> FALSE, isin |-> FALSE, coord |-> coord]
    ELSE LET c == RDiv(RSub(coord, FloatOf(pos)), scale)
         IN IF IsNone(extent) THEN [ok |-> TRUE, isin |-> RLe(R(0), c), coord |-> c]
            ELSE IF ~FloatOk(extent) THEN [ok |-> FALSE, isin |-> FALSE, coord |-> c]
            ELSE [ok |-> TRUE, isin |-> RLe(R(0), c) /\ RLe(c, FloatOf(extent)), coord |-> c]

in_svg(node, point) ==
    LET tr == parse_transform(Get(node, "transform"))
        ax == InSvgAxis(Get(node, "x"), Get(node, "width"), tr.scale[1], point[1])
        ay == InSvgAxis(Get(node, "y"), Get(node, "height"), tr.scale[2], point[2])
    IN IF tr.rotation \/ tr.translate THEN Raise("AssertionError")
       ELSE IF ~ax.ok \/ ~ay.ok THEN Raise("ValueError")
       ELSE Ok([isin |-> ax.isin /\ ay.isin, point |-> <<ax.coord, ay.coord>>])

in_group(node, point) ==
    IF ~IsNone(Get(node, "transform")) THEN Raise("AssertionError")
    ELSE Ok([isin |-> TRUE, point |-> point])

\* a faulty point_in_rect that leaves the far edges out
PointInRectOpen(rect, point) ==
    IF \E a \in {"x", "y", "width", "height"} : ~FloatOk(Get(rect, a))
    THEN Raise("ValueError")
    ELSE LET rx == FloatOf(Get(rect, "x"))
             ry == FloatOf(Get(rect, "y"))
             width == FloatOf(Get(rect, "width"))
             height == FloatOf(Get(rect, "height"))
         IN Ok([isin |-> /\ RLe(rx, point[1]) /\ ~RLe(RAdd(rx, width), point[1])
                         /\ RLe(ry, point[2]) /\ ~RLe(RAdd(ry, height), point[2]),
                point |-> point])

point_in_rect(rect, point) ==
    IF \E a \in {"x", "y", "width", "height"} : ~FloatOk(Get(rect, a))
    THEN IF IsNone(Get(rect, "x"))
            \/ (FloatOk(Get(rect, "x")) /\ IsNone(Get(rect, "y")))
            \/ (FloatOk(Get(rect, "x")) /\ FloatOk(Get(rect, "y"))
                    /\ IsNone(Get(rect, "width")))
            \/ (FloatOk(Get(rect, "x")) /\ FloatOk(Get(rect, "y"))
                    /\ FloatOk(Get(rect, "width")) /\ IsNone(Get(rect, "height")))
         THEN Raise("TypeError")
         ELSE Raise("ValueError")
    ELSE LET rx == FloatOf(Get(rect, "x"))
             ry == FloatOf(Get(rect, "y"))
             width == FloatOf(Get(rect, "width"))
             height == FloatOf(Get(rect, "height"))
         IN Ok([isin |-> /\ RLe(rx, point[1]) /\ RLe(point[1], RAdd(rx, width))
                         /\ RLe(ry, point[2]) /\ RLe(point[2], RAdd(ry, height)),
                point |-> point])

point_in_circle(circle, point) ==
    IF \E a \in {"cx", "cy", "r"} : ~FloatOk(Get(circle, a))
    THEN IF IsNone(Get(circle, "cx"))
            \/ (FloatOk(Get(circle, "cx")) /\ IsNone(Get(circle, "cy")))
            \/ (FloatOk(Get(circle, "cx")) /\ FloatOk(Get(circle, "cy"))
                    /\ IsNone(Get(circle, "r")))
         THEN Raise("TypeError")
         ELSE Raise("ValueError")
    ELSE LET dx == RSub(point[1], FloatOf(Get(circle, "cx")))
             dy == RSub(point[2], FloatOf(Get(circle, "cy")))
             r == FloatOf(Get(circle, "r"))
         IN Ok([isin |-> RLe(RAdd(RMul(dx, dx), RMul(dy, dy)), RMul(r, r)),
                point |-> point])

SUPPORTED_SHAPES == {SVG, G, RECT, CIRCLE}

ShapeTest(node, point) ==
    CASE node.tag = SVG -> in_svg(node, point)
      [] node.tag = G -> in_group(node, point)
      [] node.tag = RECT -> point_in_rect(node, point)
      [] OTHER -> point_in_circle(node, point)

RECURSIVE elements_under(_, _)
RECURSIVE ChildrenUnder(_, _, _)
RECURSIVE UnderShape(_, _, _)

\* the loop `for child in node: result.extend(elements_under(child, tpoint))`
\* from child i on; `result` is what the loop has collected so far
ChildrenUnder(children, tpoint, result) ==
    IF Len(children) = 0 THEN Ok(result)
    ELSE LET r == elements_under(Head(children), tpoint)
         IN IF ~r.ok THEN r
            ELSE ChildrenUnder(Tail(children), tpoint, result \o r.value)

\* a faulty elements_under that lists an element after its descendants
IdAfter(r, ids) == IF r.ok THEN Ok(r.value \o ids) ELSE r

UnderShapePostOrder(node, node_id, t) ==
    IF ~t.ok THEN t
    ELSE IF t.value.isin
    THEN IdAfter(ChildrenUnder(node.children, t.value.point, <<>>),
                 IF IsNone(node_id) \/ node_id.str = "" THEN <<>>
                 ELSE <<node_id.str>>)
    ELSE Ok(<<>>)

\* elements_under after `isin, tpoint = SUPPORTED_SHAPES[node.tag](node, point)`;
\* t is what the shape test gave (or raised)
UnderShape(node, node_id, t) ==
    IF ~t.ok THEN t
    ELSE IF t.value.isin
    THEN ChildrenUnder(node.children, t.value.point,
                       IF IsNone(node_id) \/ node_id.str = "" THEN <<>>
                       ELSE <<node_id.str>>)
    ELSE Ok(<<>>)

\* a faulty elements_under that looks through an element of a kind it does not know
ElementsUnderAnyTag(node, point) ==
    IF node.tag \notin SUPPORTED_SHAPES THEN ChildrenUnder(node.children, point, <<>>)
    ELSE UnderShape(node, Get(node, "id"), ShapeTest(node, point))

elements_under(node, point) ==
    IF node.tag \notin SUPPORTED_SHAPES THEN Ok(<<>>)
    ELSE UnderShape(node, Get(node, "id"), ShapeTest(node, point))

\* ----------------------------------------------------------- CairoSVGSurface

\* CairoSVGSurface.__init__
SurfaceInit(surface_size) ==
    [svg_source |-> tostring(EmptySvgTree),
     svg_tree |-> EmptySvgTree,
     surface_size |-> surface_size,
     svg_position |-> <<0, 0>>,
     svg_size |-> <<0, 0>>,
     scaling_factor |-> R(1),
     surface_offset |-> <<R(0), R(0)>>,
     window_size |-> <<0, 0>>]

\* CairoSVGSurface.update: the surface after the call and how the call ended. The
\* tree is stored first; each later statement assigns only when it did not raise.
SurfaceUpdate(s, svg_tree) ==
    LET s1 == [s EXCEPT !.svg_tree = svg_tree]
        width == Get(svg_tree, "width")
        height == Get(svg_tree, "height")
        x == Get(svg_tree, "x")
        y == Get(svg_tree, "y")
    IN IF ~TagEndsWithSvg(svg_tree.tag)
       THEN [surface |-> s1, outcome |-> "AssertionError"]
       ELSE IF IsNone(width) \/ (IntOk(width) /\ IsNone(height))
       THEN [surface |-> s1, outcome |-> "TypeError"]
       ELSE IF ~IntOk(width) \/ ~IntOk(height)
       THEN [surface |-> s1, outcome |-> "ValueError"]
       ELSE LET s2 == [s1 EXCEPT !.svg_size = <<IntOf(width), IntOf(height)>>]
            IN IF (~IsNone(x) /\ ~IntOk(x)) \/ (~IsNone(y) /\ ~IntOk(y))
               THEN [surface |-> s2, outcome |-> "ValueError"]
               ELSE [surface |->
                        [s2 EXCEPT !.svg_position =
                                       <<IF IsNone(x) THEN 0 ELSE IntOf(x),
                                         IF IsNone(y) THEN 0 ELSE IntOf(y)>>,
                                   !.svg_source = tostring(svg_tree)],
                     outcome |-> "ok"]

\* a faulty _svg_to_npim that fills the buffer instead of fitting into it
ScalingFactorMax(svg_size, sur_size) ==
    IF RLe(Rat(sur_size[1], svg_size[1]), Rat(sur_size[2], svg_size[2]))
    THEN Rat(sur_size[2], svg_size[2])
    ELSE Rat(sur_size[1], svg_size[1])

\* min(scaling_factor_width, scaling_factor_height) of _svg_to_npim
ScalingFactor(svg_size, sur_size) ==
    RMin(Rat(sur_size[1], svg_size[1]), Rat(sur_size[2], svg_size[2]))

\* the centering of the scaled image in the buffer, of _svg_to_npim
SurfaceOffset(svg_size, sur_size, scaling_factor) ==
    <<RHalf(RSub(R(sur_size[1]), RMul(R(svg_size[1]), scaling_factor))),
      RHalf(RSub(R(sur_size[2]), RMul(R(svg_size[2]), scaling_factor)))>>

\* CairoSVGSurface._svg_to_npim: the transform state it derives; the divisions by
\* the svg size raise ZeroDivisionError before anything is assigned
SvgToNpim(s) ==
    IF s.svg_size[1] = 0 \/ s.svg_size[2] = 0
    THEN [surface |-> s, outcome |-> "ZeroDivisionError"]
    ELSE LET sf == ScalingFactor(s.svg_size, s.surface_size)
         IN [surface |-> [s EXCEPT !.scaling_factor = sf,
                                   !.surface_offset =
                                       SurfaceOffset(s.svg_size, s.surface_size, sf)],
             outcome |-> "ok"]

\* CairoSVGSurface.render(window): window_size is what window.get_size() returns
SurfaceRender(s, window_size) ==
    SvgToNpim([s EXCEPT !.window_size = window_size])

\* CairoSVGSurface.surface_position
surface_position(s) ==
    <<RAdd(Rat(s.window_size[1] - s.surface_size[1], 2),
           RMul(R(s.svg_position[1]), s.scaling_factor)),
      RAdd(Rat(s.window_size[2] - s.surface_size[2], 2),
           RMul(R(s.svg_position[2]), s.scaling_factor))>>

\* CairoSVGSurface.pixel_to_svg; point is a pair of rationals
\* a faulty pixel_to_svg that forgets the centering of the image in the buffer
PixelToSvgAtNoOffset(s, point, spos) ==
    <<RDiv(RSub(point[1], spos[1]), s.scaling_factor),
      RDiv(RSub(point[2], spos[2]), s.scaling_factor)>>

PixelToSvgAt(s, point, spos) ==
    <<RDiv(RSub(RSub(point[1], s.surface_offset[1]), spos[1]), s.scaling_factor),
      RDiv(RSub(RSub(point[2], s.surface_offset[2]), spos[2]), s.scaling_factor)>>

pixel_to_svg(s, point) ==
    IF s.scaling_factor[1] = 0 THEN Raise("ZeroDivisionError")
    ELSE Ok(PixelToSvgAt(s, point, surface_position(s)))

\* CairoSVGSurface.pixel_scale_to_svg_scale
pixel_scale_to_svg_scale(s, point) ==
    <<RMul(point[1], s.scaling_factor), RMul(point[2], s.scaling_factor)>>

\* a faulty svg_to_pixel that answers instead of raising
SvgToPixelIdentity(s, point) == Ok(point)

\* CairoSVGSurface.svg_to_pixel
svg_to_pixel(s, point) == Raise("NotImplementedError")

\* CairoSVGSurface.svg_scale_to_pixel_scale
svg_scale_to_pixel_scale(s, point) == Raise("NotImplementedError")

\* CairoSVGSurface.elements_under(point, transform)
SurfaceElementsUnder(s, point, transform) ==
    IF transform
    THEN LET p == pixel_to_svg(s, point)
         IN IF p.ok THEN elements_under(s.svg_tree, p.value) ELSE p
    ELSE elements_under(s.svg_tree, point)

\* ------------------------------------------------- raw samples and events

PYGAME_KEYDOWN == "KEYDOWN"
PYGAME_KEYUP == "KEYUP"
PYGAME_QUIT == "QUIT"
PYGAME_MOUSEDOWN == "MOUSEBUTTONDOWN"
PYGAME_MOUSEUP == "MOUSEBUTTONUP"
PYGAME_MOUSEMOTION == "MOUSEMOTION"
PYGAME_WINDOWRESIZE == "VIDEORESIZE"
PYGAME_WINDOWMOVE == "USEREVENT+1"
PYGAME_WINDOWFOCUS == "USEREVENT+2"
PYGAME_WINDOWOPEN == "USEREVENT+3"

\* A raw sample is a record: its type and the attributes the poster gave it. Two
\* more fields only record where it came from and are read by no operation of the
\* program: `by` ("os", "watcher", "view") and, on a watcher sample, `uid`, its
\* number among the samples the watcher callbacks posted.
Has(pygame_event, attr) == attr \in DOMAIN pygame_event

MOUSE_BUTTON_MAP ==
    [b \in {1, 2, 3} |->
        CASE b = 1 -> "BUTTON_LEFT" [] b = 2 -> "BUTTON_MIDDLE" [] OTHER -> "BUTTON_RIGHT"]

\* pygame.key.name(key), on the key codes the model posts
KeyName(key) == CASE key = 97 -> "a" [] key = 27 -> "escape" [] OTHER -> "unknown key"

create_window_move_event_from_pygame_event(view, e) ==
    IF e.type # PYGAME_WINDOWMOVE THEN Raise("ValueError")
    ELSE IF ~Has(e, "position") THEN Raise("AttributeError")
    ELSE Ok([event |-> "WindowMoveEvent", position |-> e.position])

create_window_focus_event_from_pygame_event(view, e) ==
    IF e.type # PYGAME_WINDOWFOCUS THEN Raise("ValueError")
    ELSE IF ~Has(e, "has_focus") THEN Raise("AttributeError")
    ELSE Ok([event |-> "WindowFocusEvent", has_focus |-> e.has_focus])

create_window_resize_event_from_pygame_event(view, e) ==
    IF e.type # PYGAME_WINDOWRESIZE THEN Raise("ValueError")
    ELSE IF ~Has(e, "size") THEN Raise("AttributeError")
    ELSE Ok([event |-> "WindowResizeEvent", size |-> e.size])

create_window_close_event_from_pygame_event(view, e) ==
    IF e.type # PYGAME_QUIT THEN Raise("ValueError")
    ELSE Ok([event |-> "WindowCloseEvent"])

create_window_open_event_from_pygame_event(view, e) ==
    IF e.type # PYGAME_WINDOWOPEN THEN Raise("ValueError")
    ELSE Ok([event |-> "WindowOpenEvent"])

create_key_event_from_pygame_event(view, e) ==
    IF e.type \notin {PYGAME_KEYDOWN, PYGAME_KEYUP} THEN Raise("ValueError")
    ELSE IF ~Has(e, "key") THEN Raise("AttributeError")
    ELSE Ok([event |-> "KeyEvent", key |-> KeyName(e.key), keycode |-> e.key,
             status |-> IF e.type = PYGAME_KEYDOWN THEN "DOWN" ELSE "UP"])

\* a faulty constructor that takes a button MOUSE_BUTTON_MAP does not hold for the
\* left one
MouseButtonEventAnyButton(e, position, target) ==
    IF ~target.ok THEN target
    ELSE IF ~Has(e, "button") THEN Raise("AttributeError")
    ELSE Ok([event |-> "MouseButtonEvent",
             button |-> IF e.button \in DOMAIN MOUSE_BUTTON_MAP
                        THEN MOUSE_BUTTON_MAP[e.button] ELSE "BUTTON_LEFT",
             position |-> position,
             status |-> IF e.type = PYGAME_MOUSEDOWN THEN "DOWN" ELSE "UP",
             target |-> target.value,
             position_raw |-> e.pos])

\* view is the View's render surface: the constructors read nothing else of it.
\* The last lines of create_mouse_button_event_from_pygame_event: the button lookup
\* and the event, once position and target are computed
MouseButtonEvent(e, position, target) ==
    IF ~target.ok THEN target
    ELSE IF ~Has(e, "button") THEN Raise("AttributeError")
    ELSE IF e.button \notin DOMAIN MOUSE_BUTTON_MAP THEN Raise("KeyError")
    ELSE Ok([event |-> "MouseButtonEvent",
             button |-> MOUSE_BUTTON_MAP[e.button],
             position |-> position,
             status |-> IF e.type = PYGAME_MOUSEDOWN THEN "DOWN" ELSE "UP",
             target |-> target.value,
             position_raw |-> e.pos])

\* a faulty constructor that hit-tests as if the position were still in pixels
MouseButtonAtPixel(view, e, position) ==
    IF ~position.ok THEN position
    ELSE MouseButtonEvent(e, position.value,
                          SurfaceElementsUnder(view, position.value, TRUE))

\* position is what view.pixel_to_svg(position_raw) gave (or raised)
MouseButtonAt(view, e, position) ==
    IF ~position.ok THEN position
    ELSE MouseButtonEvent(e, position.value,
                          SurfaceElementsUnder(view, position.value, FALSE))

create_mouse_button_event_from_pygame_event(view, e) ==
    IF e.type \notin {PYGAME_MOUSEDOWN, PYGAME_MOUSEUP} THEN Raise("ValueError")
    ELSE IF ~Has(e, "pos") THEN Raise("AttributeError")
    ELSE MouseButtonAt(view, e, pixel_to_svg(view, <<R(e.pos[1]), R(e.pos[2])>>))

\* the event of create_mouse_motion_event_from_pygame_event, once position,
\* relative and target are computed
MouseMotionEvent(e, position, relative, target) ==
    IF ~target.ok THEN target
    ELSE Ok([event |-> "MouseMotionEvent",
             position |-> position,
             relative |-> relative,
             position_raw |-> e.pos,
             relative_raw |-> e.rel,
             target |-> target.value])

\* position is what view.pixel_to_svg(position_raw) gave (or raised)
MouseMotionAt(view, e, position) ==
    IF ~position.ok THEN position
    ELSE MouseMotionEvent(e, position.value,
                          pixel_scale_to_svg_scale(view, <<R(e.rel[1]), R(e.rel[2])>>),
                          SurfaceElementsUnder(view, position.value, FALSE))

create_mouse_motion_event_from_pygame_event(view, e) ==
    IF e.type # PYGAME_MOUSEMOTION THEN Raise("ValueError")
    ELSE IF ~Has(e, "pos") \/ ~Has(e, "rel") THEN Raise("AttributeError")
    ELSE MouseMotionAt(view, e, pixel_to_svg(view, <<R(e.pos[1]), R(e.pos[2])>>))

\* the keys of EVENT_MAP
EVENT_MAP ==
    {PYGAME_KEYDOWN, PYGAME_KEYUP, PYGAME_QUIT, PYGAME_MOUSEDOWN, PYGAME_MOUSEUP,
     PYGAME_MOUSEMOTION, PYGAME_WINDOWRESIZE, PYGAME_WINDOWMOVE, PYGAME_WINDOWFOCUS}

\* fun(self, pg_event) for fun = EVENT_MAP[pg_event.type]
CallEventMap(view, e) ==
    CASE e.type \in {PYGAME_KEYDOWN, PYGAME_KEYUP} ->
            create_key_event_from_pygame_event(view, e)
      [] e.type = PYGAME_QUIT -> create_window_close_event_from_pygame_event(view, e)
      [] e.type \in {PYGAME_MOUSEDOWN, PYGAME_MOUSEUP} ->
            create_mouse_button_event_from_pygame_event(view, e)
      [] e.type = PYGAME_MOUSEMOTION -> create_mouse_motion_event_from_pygame_event(view, e)
      [] e.type = PYGAME_WINDOWRESIZE -> create_window_resize_event_from_pygame_event(view, e)
      [] e.type = PYGAME_WINDOWMOVE -> create_window_move_event_from_pygame_event(view, e)
      [] OTHER -> create_window_focus_event_from_pygame_event(view, e)

\* a faulty loop body without the try/except: a constructor that raises ends the
\* call and nothing of the batch is returned
TryAppendAborts(acc, e, r) ==
    IF r.ok THEN [acc EXCEPT !.events = Append(@, r.value), !.origin = Append(@, e)]
    ELSE [acc EXCEPT !.events = <<>>, !.origin = <<>>, !.logged = @ + 1]

\* the try/except of View.get_events: r is what the constructor returned (appended)
\* or raised (logged, and the loop goes on)
TryAppend(acc, e, r) ==
    IF r.ok THEN [acc EXCEPT !.events = Append(@, r.value), !.origin = Append(@, e)]
    ELSE [acc EXCEPT !.logged = @ + 1]

\* a faulty loop body that reports a sample of a kind EVENT_MAP does not hold
ConvertOneReportsUnknown(view, e, acc) ==
    IF e.type \notin EVENT_MAP THEN [acc EXCEPT !.logged = @ + 1]
    ELSE TryAppend(acc, e, CallEventMap(view, e))

\* one pass of the loop body of View.get_events on sample e: what it does to the
\* result list and to the number of logged errors; origin records the sample each
\* event of the list was built from
ConvertOne(view, e, acc) ==
    IF e.type \notin EVENT_MAP THEN acc
    ELSE TryAppend(acc, e, CallEventMap(view, e))

RECURSIVE ConvertLoop(_, _, _)
\* the loop `for pg_event in pygame.event.get()` of View.get_events
ConvertLoop(view, samples, acc) ==
    IF Len(samples) = 0 THEN acc
    ELSE ConvertLoop(view, Tail(samples), ConvertOne(view, Head(samples), acc))

\* ------------------------------------------------------------ model inputs

\* pygame.display.get_desktop_sizes()[0]
ScreenSize == <<800, 600>>

\* the WindowConfiguration values the host constructs the view with
Configs ==
    {[width |-> 640, height |-> 480, title |-> "svg test", resizable |-> TRUE,
      fullscreen |-> FALSE]}

\* positions the OS window is moved to
Positions == {<<30, 40>>}

\* where the OS places the new window
InitialPosition == <<0, 0>>

\* sizes the host asks for through the window_size setter (floats allowed)
RequestSizes ==
    {<<R(640), R(480)>>, <<Rat(1279, 2), R(480)>>, <<R(400), R(300)>>}

\* sizes the user drags a resizable window to
NativeSizes == {<<500, 480>>}

\* how many OS windows carry the configured title when pywinctl looks it up
TitleMatches == {0, 1, 2}

Rect(id, x, y, w, h) ==
    Node(RECT, [id |-> Text(id), x |-> Num(R(x)), y |-> Num(R(y)),
                width |-> Num(R(w)), height |-> Num(R(h))], <<>>)

\* the trees the host passes to update
Documents ==
    {Node(SVG, [width |-> Num(R(640)), height |-> Num(R(480))],
          <<Rect("r1", 0, 0, 100, 100)>>),
     Node(SVG, [id |-> Text("root"), x |-> Num(R(10)), y |-> Num(R(0)),
                width |-> Num(R(320)), height |-> Num(R(480))],
          <<Rect("r1", 0, 0, 100, 100)>>),
     Node(SVG, [width |-> Num(R(200))], <<>>),
     Node(G, [width |-> Num(R(100)), height |-> Num(R(100))], <<>>)}

\* the samples the OS posts: the window's close button, a left click,
\* a wheel click (button 4, which MOUSE_BUTTON_MAP does not hold), and a kind that
\* EVENT_MAP does not hold
OsSamples ==
    {[type |-> PYGAME_QUIT, by |-> "os"],
     [type |-> PYGAME_MOUSEDOWN, button |-> 1, pos |-> <<60, 50>>, by |-> "os"],
     [type |-> PYGAME_MOUSEDOWN, button |-> 4, pos |-> <<60, 50>>, by |-> "os"],
     [type |-> "ACTIVEEVENT", gain |-> 1, by |-> "os"]}

Circle(id, cx, cy, r) ==
    Node(CIRCLE, [id |-> Text(id), cx |-> Num(R(cx)), cy |-> Num(R(cy)), r |-> Num(R(r))],
         <<>>)

\* a flat document: a rect and a circle under a root without id
FlatDocument ==
    Node(SVG, [width |-> Num(R(300)), height |-> Num(R(230))],
         <<Rect("r1", 0, 0, 100, 100), Circle("c1", 200, 200, 50)>>)

\* a root with id and position; a group with id around a rect, a group without id
\* around another rect
GroupDocument ==
    Node(SVG, [id |-> Text("root"), x |-> Num(R(10)), y |-> Num(R(0)),
               width |-> Num(R(300)), height |-> Num(R(920))],
         <<Node(G, [id |-> Text("group")], <<Rect("child", 0, 0, 100, 100)>>),
           Node(G, <<>>, <<Rect("child2", 50, 50, 100, 100)>>)>>)

\* an inner svg at (200, 200) of size 100x100 holding a rect and, after it, a rect
\* without width and height, on which point_in_rect raises
NestedDocument ==
    Node(SVG, [width |-> Num(R(600)), height |-> Num(R(460))],
         <<Node(SVG, [id |-> Text("inner"), x |-> Num(R(200)), y |-> Num(R(200)),
                      width |-> Num(R(100)), height |-> Num(R(100))],
                <<Rect("deep", 0, 0, 50, 50),
                  Node(RECT, [id |-> Text("bad"), x |-> Num(R(0)), y |-> Num(R(0))],
                       <<>>)>>),
           Rect("r2", 0, 0, 100, 100)>>)

\* a transform attribute: the numbers of its scale(...), <<>> without one, and
\* whether it holds a rotate(...) and a translate(...)
Transform(scale, rotate, translate) ==
    [transform |-> [scale |-> scale, rotate |-> rotate, translate |-> translate]]

TEXT == "{http://www.w3.org/2000/svg}text"

\* a rect with transform="rotate(45)" and a circle with
\* transform="translate(10,10)"
RotatedShapesDocument ==
    Node(SVG, [width |-> Num(R(300)), height |-> Num(R(230))],
         <<Node(RECT, [id |-> Text("rot"), x |-> Num(R(0)), y |-> Num(R(0)),
                       width |-> Num(R(100)), height |-> Num(R(100)),
                       transform |-> Transform(<<>>, TRUE, FALSE)], <<>>),
           Node(CIRCLE, [id |-> Text("moved"), cx |-> Num(R(200)), cy |-> Num(R(200)),
                         r |-> Num(R(50)),
                         transform |-> Transform(<<>>, FALSE, TRUE)], <<>>)>>)

\* an inner svg with transform="rotate(45)"
RotatedSvgDocument ==
    Node(SVG, [width |-> Num(R(300)), height |-> Num(R(230))],
         <<Node(SVG, [id |-> Text("turned"), x |-> Num(R(0)), y |-> Num(R(0)),
                      width |-> Num(R(100)), height |-> Num(R(100)),
                      transform |-> Transform(<<>>, TRUE, FALSE)],
                <<Rect("r3", 0, 0, 100, 100)>>)>>)

\* three nodes with transform="scale(2)": an inner svg without x and y around a
\* rect, a rect, and an inner svg at (100, 100) of size 50x50 around a rect
ScaledDocument ==
    Node(SVG, [width |-> Num(R(300)), height |-> Num(R(230))],
         <<Node(SVG, [id |-> Text("scaled"),
                      transform |-> Transform(<<R(2)>>, FALSE, FALSE)],
                <<Rect("in", 0, 0, 40, 40)>>),
           Node(RECT, [id |-> Text("big"), x |-> Num(R(0)), y |-> Num(R(0)),
                       width |-> Num(R(40)), height |-> Num(R(40)),
                       transform |-> Transform(<<R(2)>>, FALSE, FALSE)], <<>>),
           Node(SVG, [id |-> Text("zoom"), x |-> Num(R(100)), y |-> Num(R(100)),
                      width |-> Num(R(50)), height |-> Num(R(50)),
                      transform |-> Transform(<<R(2)>>, FALSE, FALSE)],
                <<Rect("z", 0, 0, 30, 30)>>)>>)

\* a text element around a rect, and a rect after it
UnsupportedDocument ==
    Node(SVG, [width |-> Num(R(300)), height |-> Num(R(230))],
         <<Node(TEXT, [id |-> Text("label")], <<Rect("inside", 0, 0, 100, 100)>>),
           Rect("after", 0, 0, 100, 100)>>)

\* a root at (10, 20) with a rect as its direct child
OffsetDocument ==
    Node(SVG, [id |-> Text("root"), x |-> Num(R(10)), y |-> Num(R(20)),
               width |-> Num(R(300)), height |-> Num(R(230))],
         <<Rect("r1", 0, 0, 100, 100)>>)

\* an inner svg of size 100x100 without x and y, around a rect wider than it
UnplacedDocument ==
    Node(SVG, [width |-> Num(R(300)), height |-> Num(R(230))],
         <<Node(SVG, [id |-> Text("box"), width |-> Num(R(100)),
                      height |-> Num(R(100))],
                <<Rect("wide", 0, 0, 300, 300)>>)>>)

\* the trees the host passes to update when it uses the surface's queries: the
\* nine above, a root with width="640.5", a root without height, a root with
\* width="wide", and a root that is no svg element
HitDocuments ==
    {FlatDocument, GroupDocument, NestedDocument, RotatedShapesDocument,
     RotatedSvgDocument, ScaledDocument, UnsupportedDocument, OffsetDocument,
     UnplacedDocument,
     Node(SVG, [width |-> Num(Rat(1281, 2)), height |-> Num(R(480))], <<>>),
     Node(SVG, [width |-> Num(R(200))], <<>>),
     Node(SVG, [width |-> Text("wide"), height |-> Num(R(480))], <<>>),
     Node(G, [width |-> Num(R(100)), height |-> Num(R(100))], <<>>)}

\* the points and displacements the host passes to the surface's queries
QueryPoints ==
    {<<R(50), R(50)>>, <<R(100), R(100)>>, <<R(150), R(150)>>, <<R(250), R(200)>>,
     <<R(210), R(210)>>}

\* the tree the host shows while the user types and clicks
EventDocuments == {GroupDocument}

\* the samples the OS posts for the keyboard and the mouse, and the quit sample
InputSamples ==
    {[type |-> PYGAME_KEYDOWN, key |-> 97, by |-> "os"],
     [type |-> PYGAME_KEYUP, key |-> 27, by |-> "os"],
     [type |-> PYGAME_QUIT, by |-> "os"],
     [type |-> PYGAME_MOUSEDOWN, button |-> 1, pos |-> <<280, 50>>, by |-> "os"],
     [type |-> PYGAME_MOUSEUP, button |-> 2, pos |-> <<300, 300>>, by |-> "os"],
     [type |-> PYGAME_MOUSEDOWN, button |-> 3, pos |-> <<120, 110>>, by |-> "os"],
     [type |-> PYGAME_MOUSEMOTION, pos |-> <<60, 50>>, rel |-> <<24, 0>>, by |-> "os"]}

\* ------------------------------------------------------------------- View

PADDING == 20

\* View.window_size (getter): int() of the stored width and height
window_size == <<Trunc(R(window_config.width)), Trunc(R(window_config.height))>>

\* View.is_open
is_open == ~closed

\* the default surface_size of View.__init__; pygame.Surface truncates floats
DefaultSurfaceSize(ws) ==
    <<Trunc(RSub(R(ws[1]), RMul(R(PADDING), Rat(ws[1], ws[2])))), ws[2] - PADDING>>

\* pygame.event.post(event)
EventPost(q, event) == Append(q, event)

\* a faulty get(): the samples are handed out and stay queued
EventGetPeek(q) == [batch |-> q, queue |-> q]

\* pygame.event.get(): the samples handed to the caller and what stays queued
EventGet(q) == [batch |-> q, queue |-> <<>>]

\* a faulty stop(): the watchdog thread keeps running
WatchdogStopNot(ws, pwc) == ws

\* self._pwc_window.watchdog.stop(): the watchdog of window pwc no longer runs
WatchdogStop(ws, pwc) == ws \ {pwc}

\* a faulty _setup_pwc_window that takes the first of several windows with the title
SetupPwcWindowFirstMatch(pwc, ws, found, n) ==
    LET stopped == IF pwc # 0 THEN ws \ {pwc} ELSE ws
    IN IF n = 0
       THEN [watchdogs |-> stopped, pwc_window |-> pwc, outcome |-> "ValueError"]
       ELSE [watchdogs |-> stopped \cup {found}, pwc_window |-> found, outcome |-> "ok"]

\* a faulty _setup_pwc_window: the watchdog of the old window is left running
SetupPwcWindowKeepsOld(pwc, ws, found, n) ==
    IF n = 0 \/ n > 1
    THEN [watchdogs |-> ws, pwc_window |-> pwc, outcome |-> "ValueError"]
    ELSE [watchdogs |-> ws \cup {found}, pwc_window |-> found, outcome |-> "ok"]

\* a step of the view touches nothing of the ambient
AmbientIdle == UNCHANGED <<ambient, call>>

\* a faulty copy that hands back the object it was given
DeepCopyShares(object, fresh) == object

\* copy.deepcopy(object) on a WindowConfiguration: a new object, named `fresh`,
\* with the fields of the given one
DeepCopy(object, fresh) == fresh

\* An assignment of width and height to the WindowConfiguration object `object`.
\* Objects are named: "caller" is the one the host passed to View(...), "view" one
\* the view made for itself, "fresh" the one the last read of view.window_config
\* made. h.caller and h.returned hold the fields of the host's two objects, wc
\* those of the object View._window_config is (h.config_is names it): an
\* assignment shows in every one of the three that is the object assigned to.
Assign(h, wc, object, width, height) ==
    [host |-> [h EXCEPT !.caller = IF object = "caller"
                                   THEN [@ EXCEPT !.width = width, !.height = height]
                                   ELSE @,
                        !.returned = IF h.returned_is = object
                                     THEN [@ EXCEPT !.width = width, !.height = height]
                                     ELSE @],
     window_config |-> IF h.config_is = object
                       THEN [wc EXCEPT !.width = width, !.height = height]
                       ELSE wc]

\* a step that assigns to no WindowConfiguration object and hands none out
HostIdle == UNCHANGED host

\* View._setup_pwc_window: pwc is the handle held (0 is None), ws the running
\* watchdogs, found the OS window pygame now shows, n the windows with the title
SetupPwcWindow(pwc, ws, found, n) ==
    LET stopped == IF pwc # 0 THEN WatchdogStop(ws, pwc) ELSE ws
    IN IF n = 0 \/ n > 1
       THEN [watchdogs |-> stopped, pwc_window |-> pwc, outcome |-> "ValueError"]
       ELSE [watchdogs |-> stopped \cup {found}, pwc_window |-> found, outcome |-> "ok"]

Op(name, arg, outcome) == [name |-> name, arg |-> arg, outcome |-> outcome]

\* a step that is not the return of get_events leaves no returned list behind, and
\* keeps the batch only of a get_events call that is still running
ReturnsNothing ==
    /\ events' = <<>>
    /\ logged' = 0
    /\ batch' = IF pc = "get_events" THEN batch ELSE <<>>

\* ------------------------------------------------------------ SVGAmbient

\* SVGAmbient.DEFAULT_SVG: the attributes its root declares
DEFAULT_SVG == [x |-> Num(R(0)), y |-> Num(R(0)), width |-> None, height |-> None]
DEFAULT_SVG_SIZE == <<640, 640>>
DEFAULT_SVG_POSITION == <<0, 0>>

\* a tuple argument of the constructor (the other value of the argument is None)
Pair(a, b) == [pair |-> <<a, b>>]
\* `if svg_size:` on None or a tuple of two numbers
Truthy(arg) == ~IsNone(arg)

\* SVGAmbient._initialise_root: the root attributes it writes with its Update query
InitialiseRoot(root, svg_size, svg_position) ==
    [x |-> IF Truthy(svg_position) THEN Num(R(svg_position.pair[1]))
           ELSE IF ~IsNone(root.x) THEN root.x
           ELSE Num(R(DEFAULT_SVG_POSITION[1])),
     y |-> IF Truthy(svg_position) THEN Num(R(svg_position.pair[2]))
           ELSE IF ~IsNone(root.y) THEN root.y
           ELSE Num(R(DEFAULT_SVG_POSITION[2])),
     width |-> IF Truthy(svg_size) THEN Num(R(svg_size.pair[1]))
               ELSE IF ~IsNone(root.width) THEN root.width
               ELSE Num(R(DEFAULT_SVG_SIZE[1])),
     height |-> IF Truthy(svg_size) THEN Num(R(svg_size.pair[2]))
                ELSE IF ~IsNone(root.height) THEN root.height
                ELSE Num(R(DEFAULT_SVG_SIZE[2]))]

\* SVGAmbient.__init__: the ambient after construction. exits counts the runs of
\* on_exit_event and published the calls of self._publisher.publish (the Update
\* query of _initialise_root is the first); trace lists, in order, the calls the
\* last __update__ made
SVGAmbientInit(svg_size, svg_position, terminate_on_window_close, user_input_types) ==
    [root |-> InitialiseRoot(DEFAULT_SVG, svg_size, svg_position),
     terminate_on_window_close |-> terminate_on_window_close,
     user_input_types |-> user_input_types,
     is_alive |-> TRUE,
     exits |-> 0,
     published |-> 1,
     trace |-> <<"XMLAmbient.__update__", "on_xml_event", "publish">>]

\* SVGAmbient.on_exit_event
on_exit_event(a) ==
    [a EXCEPT !.exits = @ + 1,
              !.is_alive = IF a.terminate_on_window_close THEN FALSE ELSE @,
              !.trace = Append(@, "on_exit_event")]

\* self._publisher.publish(action)
Publish(a) == [a EXCEPT !.published = @ + 1, !.trace = Append(@, "publish")]

\* a faulty __update__ that publishes the action before the exit test
AfterRoutingPublishesFirst(a, action, result) ==
    LET b == Publish(a)
    IN [ambient |-> IF action.event = "WindowCloseEvent" THEN on_exit_event(b) ELSE b,
        ok |-> TRUE, value |-> result, error |-> "none"]

\* the lines of __update__ after the routing: the exit test and the publication;
\* result is what the routed handler returned
AfterRouting(a, action, result) ==
    LET b == IF action.event = "WindowCloseEvent" THEN on_exit_event(a) ELSE a
    IN [ambient |-> Publish(b), ok |-> TRUE, value |-> result, error |-> "none"]

\* the ambient when the routing of __update__ has called `calls`
Routed(a, calls) == [a EXCEPT !.trace = calls]

\* the body of the try block of SVGAmbient.__update__. An XMLQuery is the record
\* [event |-> "Update", attrs, super], super saying what XMLAmbient.__update__
\* does with it: "ok" (applied), "error" (an ErrorActiveObservation is returned)
\* or "raises"; every other action is an event record [event |-> its type, ...].
UpdateBody(a, action) ==
    IF action.event = "Update"
    THEN IF action.super = "raises"
         THEN [ambient |-> Routed(a, <<"XMLAmbient.__update__">>), ok |-> FALSE,
               value |-> "none", error |-> "XMLError"]
         ELSE IF action.super = "error"
         THEN AfterRouting(Routed(a, <<"XMLAmbient.__update__", "on_xml_event">>),
                           action, "ErrorActiveObservation")
         ELSE AfterRouting([Routed(a, <<"XMLAmbient.__update__", "on_xml_event">>)
                               EXCEPT !.root = [k \in DOMAIN a.root |->
                                        IF k \in DOMAIN action.attrs
                                        THEN action.attrs[k] ELSE a.root[k]]],
                           action, "ActiveObservation")
    ELSE IF action.event \in a.user_input_types
    THEN AfterRouting(Routed(a, <<"on_user_input_event">>), action, "None")
    ELSE [ambient |-> Routed(a, <<"on_unknown_event">>), ok |-> FALSE,
          value |-> "none", error |-> "ValueError"]

\* a faulty __update__ without the except clause: the exception leaves the call
TryExceptNot(r) ==
    [ambient |-> r.ambient, outcome |-> IF r.ok THEN r.value ELSE "raised",
     exception |-> r.error]

\* the try/except of SVGAmbient.__update__ around the body's outcome r
TryExcept(r) ==
    [ambient |-> r.ambient,
     outcome |-> IF r.ok THEN r.value ELSE "ErrorActiveObservation",
     exception |-> r.error]

\* SVGAmbient.__update__
AmbientUpdate(a, action) == TryExcept(UpdateBody(a, action))

\* the arguments the host constructs the ambient with
SvgSizes == {None, Pair(300, 230)}
SvgPositions == {None, Pair(10, 0), Pair(0, 0)}

\* the event types of the view
InputEventTypes ==
    {"KeyEvent", "MouseButtonEvent", "MouseMotionEvent", "WindowCloseEvent",
     "WindowOpenEvent", "WindowFocusEvent", "WindowMoveEvent", "WindowResizeEvent"}

\* the types the type hint of on_user_input_event resolves to: all of them, or
\* the keyboard and mouse events of a subclass that handles only those
UserInputTypeSets ==
    {InputEventTypes, {"KeyEvent", "MouseButtonEvent", "MouseMotionEvent"}}

\* the actions the agents attempt: events of the view, an object of a type the
\* ambient does not know, and Update queries on the root
AmbientActions ==
    {[event |-> "WindowCloseEvent"],
     [event |-> "KeyEvent", key |-> "a", keycode |-> 97, status |-> "DOWN"],
     [event |-> "WindowFocusEvent", has_focus |-> FALSE],
     [event |-> "Ping"]}
    \cup {[event |-> "Update", attrs |-> [width |-> Num(R(300)), height |-> Num(R(230))],
           super |-> o] : o \in {"ok", "error", "raises"}}

\* the ambient of a view that is used on its own
NoCall == [name |-> "__init__", arg |-> [svg_size |-> None, svg_position |-> None],
           outcome |-> "ok", exception |-> "none", n |-> 0]

\* View.__init__(cfg) up to line 252: the configuration is copied (line 224) and
\* the copy gets the screen size when it asks for fullscreen (lines 231-234).
\* host.passed keeps the fields the host's object had when it was passed.
ViewConstructed(cfg) ==
        LET position == InitialPosition
            \* no read of window_config yet: returned_is is "none"
            h == [caller |-> cfg, passed |-> cfg,
                  config_is |-> DeepCopy("caller", "view"),
                  returned |-> cfg, returned_is |-> "none"]
            c == IF cfg.fullscreen
                 THEN Assign(h, cfg, h.config_is, ScreenSize[1], ScreenSize[2])
                 ELSE [host |-> h, window_config |-> cfg]
            wc == c.window_config
            ws == <<Trunc(R(wc.width)), Trunc(R(wc.height))>>
        IN /\ window_config = wc
           /\ host = c.host
           /\ os_window = [id |-> 1, size |-> ws, position |-> position, active |-> TRUE]
           /\ window = 1
           /\ surface = SurfaceInit(DefaultSurfaceSize(ws))
           /\ closed = FALSE
           /\ pwc_window = 0
           /\ watchdogs = {}
           /\ toolkit_up = TRUE
           /\ queue = <<>>
           /\ pc = "ctor_setup_pwc"
           /\ batch = <<>>
           /\ events = <<>>
           /\ logged = 0
           /\ op = Op("__init__", <<>>, "ok")
           /\ inputs = 0
           /\ enqueued = 0
           /\ delivered = <<>>

ViewInit == \E cfg \in Configs : ViewConstructed(cfg)

\* the state after View.__init__ line 252, beside a default SVGAmbient
Init ==
    /\ ViewInit
    /\ ambient = SVGAmbientInit(None, None, TRUE, InputEventTypes)
    /\ call = NoCall

\* the state after SVGAmbient.__init__, for each way of constructing it
AmbientInit ==
    /\ ViewInit
    /\ \E svg_size \in SvgSizes, svg_position \in SvgPositions,
          terminate \in BOOLEAN, types \in UserInputTypeSets :
          /\ ambient = SVGAmbientInit(svg_size, svg_position, terminate, types)
          /\ call = [NoCall EXCEPT !.arg = [svg_size |-> svg_size,
                                            svg_position |-> svg_position]]

\* View.__init__, line 253: attach the watcher to the window just created
CtorSetupPwc(n) ==
    /\ pc = "ctor_setup_pwc"
    /\ LET r == SetupPwcWindow(pwc_window, watchdogs, os_window.id, n)
       IN /\ watchdogs' = r.watchdogs
          /\ pwc_window' = r.pwc_window
          /\ pc' = IF r.outcome = "ok" THEN "ctor_events" ELSE "ctor_raised"
          /\ op' = Op("__init__", <<>>, r.outcome)
    /\ ReturnsNothing
    /\ UNCHANGED <<window_config, window, closed, surface, toolkit_up, os_window, queue,
                   inputs, enqueued, delivered>>
    /\ AmbientIdle
    /\ HostIdle

\* View.__init__, lines 256-259: the initial resize and move notifications
CtorInitialEvents ==
    /\ pc = "ctor_events"
    /\ queue' = EventPost(EventPost(queue,
                    [type |-> PYGAME_WINDOWRESIZE, size |-> os_window.size, by |-> "view"]),
                    [type |-> PYGAME_WINDOWMOVE, position |-> os_window.position, by |-> "view"])
    /\ pc' = "idle"
    /\ op' = Op("__init__", <<>>, "ok")
    /\ ReturnsNothing
    /\ UNCHANGED <<window_config, window, pwc_window, closed, surface, toolkit_up,
                   os_window, watchdogs, inputs, enqueued, delivered>>
    /\ AmbientIdle
    /\ HostIdle

\* View.update
Update(svg_tree) ==
    /\ pc = "idle"
    /\ inputs < MaxInputs
    /\ inputs' = inputs + 1
    /\ LET r == SurfaceUpdate(surface, svg_tree)
       IN /\ surface' = r.surface
          /\ op' = Op("update", <<>>, r.outcome)
    /\ ReturnsNothing
    /\ UNCHANGED <<window_config, window, pwc_window, closed, toolkit_up, os_window,
                   watchdogs, queue, pc, enqueued, delivered>>
    /\ AmbientIdle
    /\ HostIdle

\* View.render
Render ==
    /\ pc = "idle"
    /\ ~closed
    /\ LET r == SurfaceRender(surface, os_window.size)
       IN /\ surface' = r.surface
          /\ op' = Op("render", <<>>, r.outcome)
    /\ ReturnsNothing
    /\ UNCHANGED <<window_config, window, pwc_window, closed, toolkit_up, os_window,
                   watchdogs, queue, pc, inputs, enqueued, delivered>>
    /\ AmbientIdle
    /\ HostIdle

\* the uids of the watcher samples of a sequence of samples, in order
Uids(samples) ==
    LET w == SelectSeq(samples, LAMBDA e : e.by = "watcher")
    IN [i \in 1..Len(w) |-> w[i].uid]

\* View.get_events, line 301: pygame.event.get() empties the queue
GetEventsDrain ==
    /\ pc = "idle"
    /\ ~closed
    /\ LET g == EventGet(queue)
       IN /\ batch' = g.batch
          /\ queue' = g.queue
    /\ events' = <<>>
    /\ logged' = 0
    /\ pc' = "get_events"
    /\ op' = Op("get_events", 301, "ok")
    /\ UNCHANGED <<window_config, window, pwc_window, closed, surface, toolkit_up,
                   os_window, watchdogs, inputs, enqueued, delivered>>
    /\ AmbientIdle
    /\ HostIdle

\* a faulty get_events that closes the view when it meets a quit sample
GetEventsReturnCloses ==
    /\ pc = "get_events"
    /\ LET r == ConvertLoop(surface, batch, [events |-> <<>>, logged |-> 0, origin |-> <<>>])
       IN /\ events' = r.events
          /\ logged' = r.logged
          /\ delivered' = delivered \o Uids(r.origin)
    /\ closed' = (closed \/ \E i \in 1..Len(batch) : batch[i].type = PYGAME_QUIT)
    /\ pc' = "idle"
    /\ op' = Op("get_events", 312, "ok")
    /\ UNCHANGED <<window_config, window, pwc_window, surface, toolkit_up,
                   os_window, watchdogs, queue, batch, inputs, enqueued>>
    /\ AmbientIdle
    /\ HostIdle

\* View.get_events, lines 301-312: convert the batch and return the events
GetEventsReturn ==
    /\ pc = "get_events"
    /\ LET r == ConvertLoop(surface, batch, [events |-> <<>>, logged |-> 0, origin |-> <<>>])
       IN /\ events' = r.events
          /\ logged' = r.logged
          /\ delivered' = delivered \o Uids(r.origin)
    /\ pc' = "idle"
    /\ op' = Op("get_events", 312, "ok")
    /\ UNCHANGED <<window_config, window, pwc_window, closed, surface, toolkit_up,
                   os_window, watchdogs, queue, batch, inputs, enqueued>>
    /\ AmbientIdle
    /\ HostIdle

\* a faulty setter without the test: every assignment counts as a change
SizeUnchangedNever(cfg, value) == FALSE

\* the test `window_size != value` of the window_size setter, negated: the stored
\* width and height against the value as given, before any rounding
SizeUnchanged(cfg, value) == <<R(cfg.width), R(cfg.height)>> = value

\* View.window_size (setter); n is the number of OS windows with the title
SetWindowSize(value, n) ==
    /\ pc = "idle"
    /\ ~closed
    /\ inputs < MaxInputs
    /\ inputs' = inputs + 1
    /\ IF SizeUnchanged(window_config, value)
       THEN /\ op' = Op("set_window_size", value, "ok")
            /\ UNCHANGED <<window_config, window, pwc_window, os_window, watchdogs, queue,
                           host>>
       ELSE LET width == Ceil(value[1])
                height == Ceil(value[2])
                created == [os_window EXCEPT !.id = @ + 1, !.size = <<width, height>>]
                r == SetupPwcWindow(pwc_window, watchdogs, created.id, n)
                c == Assign(host, window_config, host.config_is, width, height)
            IN /\ os_window' = created
               /\ window' = created.id
               /\ watchdogs' = r.watchdogs
               /\ pwc_window' = r.pwc_window
               /\ op' = Op("set_window_size", value, r.outcome)
               /\ IF r.outcome = "ok"
                  THEN /\ window_config' = c.window_config
                       /\ host' = c.host
                       /\ queue' = EventPost(queue, [type |-> PYGAME_WINDOWRESIZE,
                                                     size |-> <<width, height>>,
                                                     by |-> "view"])
                  ELSE UNCHANGED <<window_config, queue, host>>
    /\ ReturnsNothing
    /\ UNCHANGED <<closed, surface, toolkit_up, pc, enqueued, delivered>>
    /\ AmbientIdle

\* a faulty close that does not set _closed
CloseFlagUnset ==
    /\ pc = "idle"
    /\ ~closed
    /\ pc' = "close_stop"
    /\ op' = Op("close", 319, "ok")
    /\ ReturnsNothing
    /\ UNCHANGED <<window_config, window, pwc_window, closed, surface, toolkit_up,
                   os_window, watchdogs, queue, inputs, enqueued, delivered>>
    /\ AmbientIdle
    /\ HostIdle

\* View.close, line 319
CloseFlag ==
    /\ pc = "idle"
    /\ ~closed
    /\ closed' = TRUE
    /\ pc' = "close_stop"
    /\ op' = Op("close", 319, "ok")
    /\ ReturnsNothing
    /\ UNCHANGED <<window_config, window, pwc_window, surface, toolkit_up, os_window,
                   watchdogs, queue, inputs, enqueued, delivered>>
    /\ AmbientIdle
    /\ HostIdle

\* a faulty close that stops the watchdog of the window the view was constructed
\* with, whatever window the handle is bound to now
CloseStopStale ==
    /\ pc = "close_stop"
    /\ watchdogs' = WatchdogStop(watchdogs, 1)
    /\ pc' = "close_quit"
    /\ op' = Op("close", 320, "ok")
    /\ ReturnsNothing
    /\ UNCHANGED <<window_config, window, pwc_window, closed, surface, toolkit_up,
                   os_window, queue, inputs, enqueued, delivered>>
    /\ AmbientIdle
    /\ HostIdle

\* View.close, line 320
CloseStop ==
    /\ pc = "close_stop"
    /\ watchdogs' = WatchdogStop(watchdogs, pwc_window)
    /\ pc' = "close_quit"
    /\ op' = Op("close", 320, "ok")
    /\ ReturnsNothing
    /\ UNCHANGED <<window_config, window, pwc_window, closed, surface, toolkit_up,
                   os_window, queue, inputs, enqueued, delivered>>
    /\ AmbientIdle
    /\ HostIdle

\* View.close, line 321: pygame.quit() discards the event queue
CloseQuit ==
    /\ pc = "close_quit"
    /\ toolkit_up' = FALSE
    /\ queue' = <<>>
    /\ pc' = "idle"
    /\ op' = Op("close", 321, "ok")
    /\ ReturnsNothing
    /\ UNCHANGED <<window_config, window, pwc_window, closed, surface, os_window,
                   watchdogs, inputs, enqueued, delivered>>
    /\ AmbientIdle
    /\ HostIdle

\* a faulty callback that posts its sample twice
CallbackPostTwice(name, sample) ==
    /\ watchdogs # {}
    /\ inputs < MaxInputs
    /\ IF toolkit_up
       THEN /\ queue' = EventPost(EventPost(queue, sample), sample)
            /\ enqueued' = enqueued + 1
            /\ inputs' = inputs + 1
            /\ op' = Op(name, <<>>, "ok")
       ELSE /\ op' = Op(name, <<>>, "pygame.error")
            /\ UNCHANGED <<queue, enqueued, inputs>>

\* what a watchdog callback does with its sample: post it; pygame.event.post
\* raises pygame.error once pygame.quit() has run
CallbackPost(name, sample) ==
    /\ watchdogs # {}
    /\ inputs < MaxInputs
    /\ IF toolkit_up
       THEN /\ queue' = EventPost(queue, sample)
            /\ enqueued' = enqueued + 1
            /\ inputs' = inputs + 1
            /\ op' = Op(name, <<>>, "ok")
       ELSE /\ op' = Op(name, <<>>, "pygame.error")
            /\ UNCHANGED <<queue, enqueued, inputs>>

\* View._window_focus_callback, called on the watchdog thread when the window has
\* become active or stopped being active
WindowFocusCallback(has_focus) ==
    /\ has_focus # os_window.active
    /\ os_window' = [os_window EXCEPT !.active = has_focus]
    /\ CallbackPost("_window_focus_callback",
                    [type |-> PYGAME_WINDOWFOCUS, has_focus |-> has_focus, by |-> "watcher",
                     uid |-> enqueued + 1])
    /\ ReturnsNothing
    /\ UNCHANGED <<window_config, window, pwc_window, closed, surface, toolkit_up,
                   watchdogs, pc, delivered>>
    /\ AmbientIdle
    /\ HostIdle

\* View._window_moved_callback, called on the watchdog thread when the user has
\* moved the window to `position`
WindowMovedCallback(position) ==
    /\ CallbackPost("_window_moved_callback",
                    [type |-> PYGAME_WINDOWMOVE, position |-> position, by |-> "watcher",
                     uid |-> enqueued + 1])
    /\ os_window' = [os_window EXCEPT !.position = position]
    /\ ReturnsNothing
    /\ UNCHANGED <<window_config, window, pwc_window, closed, surface, toolkit_up,
                   watchdogs, pc, delivered>>
    /\ AmbientIdle
    /\ HostIdle

\* the OS appends an input sample to the pygame queue
OsInput(sample) ==
    /\ toolkit_up
    /\ pc # "ctor_raised"
    /\ inputs < MaxInputs
    /\ queue' = EventPost(queue, sample)
    /\ inputs' = inputs + 1
    /\ op' = Op("os_input", <<>>, "ok")
    /\ ReturnsNothing
    /\ UNCHANGED <<window_config, window, pwc_window, closed, surface, toolkit_up,
                   os_window, watchdogs, pc, enqueued, delivered>>
    /\ AmbientIdle
    /\ HostIdle

\* the user drags the border of a resizable window: pygame posts VIDEORESIZE
OsResize(size) ==
    /\ toolkit_up
    /\ pc # "ctor_raised"
    /\ inputs < MaxInputs
    /\ window_config.resizable /\ ~window_config.fullscreen
    /\ size # os_window.size
    /\ os_window' = [os_window EXCEPT !.size = size]
    /\ queue' = EventPost(queue, [type |-> PYGAME_WINDOWRESIZE, size |-> size, by |-> "os"])
    /\ inputs' = inputs + 1
    /\ op' = Op("os_resize", <<>>, "ok")
    /\ ReturnsNothing
    /\ UNCHANGED <<window_config, window, pwc_window, closed, surface, toolkit_up,
                   watchdogs, pc, enqueued, delivered>>
    /\ AmbientIdle
    /\ HostIdle

\* View._window_open_callback
WindowOpenCallback ==
    /\ pc = "idle"
    /\ toolkit_up
    /\ inputs < MaxInputs
    /\ queue' = EventPost(queue, [type |-> PYGAME_WINDOWOPEN, by |-> "view"])
    /\ inputs' = inputs + 1
    /\ op' = Op("_window_open_callback", <<>>, "ok")
    /\ ReturnsNothing
    /\ UNCHANGED <<window_config, window, pwc_window, closed, surface, toolkit_up,
                   os_window, watchdogs, pc, enqueued, delivered>>
    /\ AmbientIdle
    /\ HostIdle

\* what a query of the view leaves as the last step: r is what the surface's
\* method returned (its value) or raised (its error)
Answer(name, arg, r) ==
    [name |-> name, arg |-> arg, outcome |-> IF r.ok THEN "ok" ELSE r.error,
     result |-> IF r.ok THEN r.value ELSE None]

\* a query changes nothing of the view
Query ==
    /\ pc = "idle"
    /\ ReturnsNothing
    /\ UNCHANGED <<window_config, window, pwc_window, closed, surface, toolkit_up,
                   os_window, watchdogs, queue, pc, inputs, enqueued, delivered>>
    /\ AmbientIdle
    /\ HostIdle

\* View.pixel_to_svg
PixelToSvg(point) ==
    /\ op' = Answer("pixel_to_svg", point, pixel_to_svg(surface, point))
    /\ Query

\* View.pixel_scale_to_svg_scale
PixelScaleToSvgScale(point) ==
    /\ op' = Answer("pixel_scale_to_svg_scale", point,
                    Ok(pixel_scale_to_svg_scale(surface, point)))
    /\ Query

\* View.svg_to_pixel
SvgToPixel(point) ==
    /\ op' = Answer("svg_to_pixel", point, svg_to_pixel(surface, point))
    /\ Query

\* View.svg_scale_to_pixel_scale
SvgScaleToPixelScale(point) ==
    /\ op' = Answer("svg_scale_to_pixel_scale", point,
                    svg_scale_to_pixel_scale(surface, point))
    /\ Query

\* View.elements_under
ElementsUnder(point, transform) ==
    /\ op' = Answer("elements_under", [point |-> point, transform |-> transform],
                    SurfaceElementsUnder(surface, point, transform))
    /\ Query

Next ==
    \/ \E n \in TitleMatches : CtorSetupPwc(n)
    \/ CtorInitialEvents
    \/ \E svg_tree \in Documents : Update(svg_tree)
    \/ Render
    \/ GetEventsDrain
    \/ GetEventsReturn
    \/ \E value \in RequestSizes, n \in TitleMatches : SetWindowSize(value, n)
    \/ CloseFlag
    \/ CloseStop
    \/ CloseQuit
    \/ \E has_focus \in BOOLEAN : WindowFocusCallback(has_focus)
    \/ \E position \in Positions : WindowMovedCallback(position)
    \/ \E sample \in OsSamples : OsInput(sample)
    \/ \E size \in NativeSizes : OsResize(size)

Spec == Init /\ [][Next]_vars

\* the host updates, renders and queries the surface of a view it has constructed
SurfaceNext ==
    \/ \E n \in TitleMatches : CtorSetupPwc(n)
    \/ CtorInitialEvents
    \/ \E svg_tree \in HitDocuments : Update(svg_tree)
    \/ Render
    \/ \E point \in QueryPoints : PixelToSvg(point)
    \/ \E point \in QueryPoints : PixelScaleToSvgScale(point)
    \/ \E point \in QueryPoints : SvgToPixel(point)
    \/ \E point \in QueryPoints : SvgScaleToPixelScale(point)
    \/ \E point \in QueryPoints, transform \in BOOLEAN : ElementsUnder(point, transform)

SurfaceSpec == Init /\ [][SurfaceNext]_vars

\* the user types, clicks and moves the window while the host shows a document
\* and polls
EventNext ==
    \/ \E n \in TitleMatches : CtorSetupPwc(n)
    \/ CtorInitialEvents
    \/ \E svg_tree \in EventDocuments : Update(svg_tree)
    \/ Render
    \/ GetEventsDrain
    \/ GetEventsReturn
    \/ WindowOpenCallback
    \/ \E has_focus \in BOOLEAN : WindowFocusCallback(has_focus)
    \/ \E position \in Positions : WindowMovedCallback(position)
    \/ \E sample \in InputSamples : OsInput(sample)
    \/ \E size \in NativeSizes : OsResize(size)

EventSpec == Init /\ [][EventNext]_vars

\* calls of __update__ in one run
MaxActions == 3

\* an agent's action is executed: SVGAmbient.__update__(action)
AmbientExecute(action) ==
    /\ call.n < MaxActions
    /\ LET r == AmbientUpdate(ambient, action)
       IN /\ ambient' = r.ambient
          /\ call' = [name |-> "__update__", arg |-> action, outcome |-> r.outcome,
                      exception |-> r.exception, n |-> call.n + 1]
    /\ UNCHANGED <<window_config, window, pwc_window, closed, surface, toolkit_up,
                   os_window, watchdogs, queue, pc, batch, events, logged, op, inputs,
                   enqueued, delivered, host>>

AmbientNext == \E action \in AmbientActions : AmbientExecute(action)

AmbientSpec == AmbientInit /\ [][AmbientNext]_vars

\* the configurations of a host that also asks for a fullscreen window
HostConfigs ==
    Configs \cup {[width |-> 640, height |-> 480, title |-> "svg test",
                   resizable |-> FALSE, fullscreen |-> TRUE]}

\* the width and height the host writes into a configuration object it was given
HostSizes == {<<100, 100>>}

\* View.window_config (getter): the host reads the property and keeps the object
GetWindowConfig ==
    /\ pc = "idle"
    /\ host' = [host EXCEPT !.returned = window_config,
                            !.returned_is = DeepCopy(host.config_is, "fresh")]
    /\ op' = Op("window_config", <<>>, "ok")
    /\ ReturnsNothing
    /\ UNCHANGED <<window_config, window, pwc_window, closed, surface, toolkit_up,
                   os_window, watchdogs, queue, pc, inputs, enqueued, delivered>>
    /\ AmbientIdle

\* the host assigns width and height on the object its last read of
\* view.window_config returned
MutateReturned(size) ==
    /\ pc = "idle"
    /\ host.returned_is # "none"
    /\ LET c == Assign(host, window_config, host.returned_is, size[1], size[2])
       IN /\ host' = c.host
          /\ window_config' = c.window_config
    /\ op' = Op("mutate_returned", size, "ok")
    /\ ReturnsNothing
    /\ UNCHANGED <<window, pwc_window, closed, surface, toolkit_up, os_window,
                   watchdogs, queue, pc, inputs, enqueued, delivered>>
    /\ AmbientIdle

\* the state after View.__init__ line 252 for each configuration of the host
ConfigInit ==
    /\ \E cfg \in HostConfigs : ViewConstructed(cfg)
    /\ ambient = SVGAmbientInit(None, None, TRUE, InputEventTypes)
    /\ call = NoCall

\* the host resizes the window, reads the configuration and writes into what it
\* has read
ConfigNext ==
    \/ \E n \in TitleMatches : CtorSetupPwc(n)
    \/ CtorInitialEvents
    \/ \E value \in RequestSizes, n \in TitleMatches : SetWindowSize(value, n)
    \/ GetWindowConfig
    \/ \E size \in HostSizes : MutateReturned(size)

ConfigSpec == ConfigInit /\ [][ConfigNext]_vars

\* ------------------------------------------------------------- properties

\* get_events has just returned: `batch` is what it took from the queue,
\* `events` what it returned, `logged` how many errors it logged
Returned == op.name = "get_events" /\ op.arg = 312

\* sample e is of a kind EVENT_MAP holds and its constructor returns an event
Converts(view, e) == e.type \in EVENT_MAP /\ CallEventMap(view, e).ok

\* sample e is of a kind EVENT_MAP holds and its constructor raises
Malformed(view, e) == e.type \in EVENT_MAP /\ ~CallEventMap(view, e).ok

\* the events of the samples that convert, in the order of the samples
EventsOf(view, samples) ==
    LET good == SelectSeq(samples, LAMBDA e : Converts(view, e))
    IN [i \in 1..Len(good) |-> CallEventMap(view, good[i]).value]

MalformedIn(view, samples) == {i \in 1..Len(samples) : Malformed(view, samples[i])}

\* C1: get_events isolates the failure of one sample: it returns the events of
\* exactly the samples whose constructor returns, in the order of the samples, and
\* logs one error per sample whose constructor raises; so a batch of N samples of
\* mapped kinds of which exactly one is malformed yields the N-1 other events, in
\* order, and one logged error.
C1_FailureIsolated ==
    Returned =>
        /\ events = EventsOf(surface, batch)
        /\ logged = Cardinality(MalformedIn(surface, batch))
        /\ ((\A i \in 1..Len(batch) : batch[i].type \in EVENT_MAP)
                /\ Cardinality(MalformedIn(surface, batch)) = 1)
            => (Len(events) = Len(batch) - 1 /\ logged = 1)

\* a batch of four samples of mapped kinds, the third of them malformed, has been
\* converted
C1_Witness ==
    /\ Returned
    /\ Len(batch) = 4
    /\ \A i \in 1..4 : batch[i].type \in EVENT_MAP
    /\ MalformedIn(surface, batch) = {3}
    /\ Len(events) = 3
    /\ logged = 1

\* the samples a running get_events call has taken and not yet returned
Pending == IF pc = "get_events" THEN batch ELSE <<>>

\* C2: while the toolkit is up, the samples the watcher callbacks enqueued are, in
\* the order they were enqueued and each exactly once, those whose events the polls
\* have returned, then those a running poll holds, then those still queued: none is
\* lost, duplicated or reordered, however the enqueues interleave with the polls.
C2_EnqueuedReturnedOnceInOrder ==
    /\ toolkit_up =>
            delivered \o Uids(Pending) \o Uids(queue) = [i \in 1..enqueued |-> i]
    /\ Returned =>
            /\ Len(delivered) >= Len(Uids(batch))
            /\ SubSeq(delivered, Len(delivered) - Len(Uids(batch)) + 1, Len(delivered))
                   = Uids(batch)

\* three watcher samples: the first returned by an earlier poll, the second by the
\* poll that has just returned, the third enqueued while that poll was running
C2_Witness ==
    /\ Returned
    /\ delivered = <<1, 2>>
    /\ Uids(batch) = <<2>>
    /\ Uids(queue) = <<3>>

\* C3: is_open is True at construction; it changes only in close(), from True to
\* False, and is False after every step of close(); no other step changes it.
C3_IsOpenOneWay ==
    /\ is_open
    /\ [][/\ (is_open' # is_open) => (is_open /\ op'.name = "close")
          /\ (op'.name = "close") => ~is_open']_vars

\* the view was closed, the toolkit is down, and an operation has run since
C3_Witness ==
    /\ ~is_open
    /\ ~toolkit_up
    /\ op.name = "update"

\* the steps of the window_size setter leave `set_window_size` as the last step
SetterStep == op'.name = "set_window_size"

\* no window, watcher, configuration or queue effect
NoWindowEffect == UNCHANGED <<window_config, window, pwc_window, os_window, watchdogs, queue>>

\* C4: assigning the currently stored size to window_size does nothing: the window
\* is not recreated, the watcher is untouched, the configuration is unchanged and
\* no resize sample is enqueued.
C4_SameSizeNoOp ==
    [][(SetterStep /\ op'.arg = <<R(window_size[1]), R(window_size[2])>>)
           => NoWindowEffect]_vars

\* the setter has run with the stored size: the first window is still there, its
\* watchdog running
C4_Witness ==
    /\ op.name = "set_window_size"
    /\ op.arg = <<R(window_size[1]), R(window_size[2])>>
    /\ os_window.id = 1
    /\ watchdogs = {1}
    /\ pwc_window = 1

\* C5: an assignment to window_size of a size different from the stored one that
\* returns has recreated the window at the size rounded up, stopped the watchdog of
\* the old window, attached a running watchdog to the new window, stored the integer
\* width and height, and appended exactly one resize sample to the queue, which
\* converts to a WindowResizeEvent of the new size.
C5_DifferentSizeRecreates ==
    [][(SetterStep /\ op'.outcome = "ok"
            /\ op'.arg # <<R(window_size[1]), R(window_size[2])>>)
        => LET size == <<Ceil(op'.arg[1]), Ceil(op'.arg[2])>>
           IN /\ os_window'.id # os_window.id
              /\ os_window'.size = size
              /\ window' = os_window'.id
              /\ pwc_window \notin watchdogs'
              /\ pwc_window' = os_window'.id
              /\ watchdogs' = {pwc_window'}
              /\ window_config'.width = size[1]
              /\ window_config'.height = size[2]
              /\ window_size' = size
              /\ Len(queue') = Len(queue) + 1
              /\ SubSeq(queue', 1, Len(queue)) = queue
              /\ queue'[Len(queue')].type = PYGAME_WINDOWRESIZE
              /\ CallEventMap(surface', queue'[Len(queue')])
                     = Ok([event |-> "WindowResizeEvent", size |-> size])]_vars

\* the window was resized to 400x300 by the setter and a later poll has returned
\* the WindowResizeEvent
C5_Witness ==
    /\ Returned
    /\ os_window.id = 2
    /\ watchdogs = {2}
    /\ window_size = <<400, 300>>
    /\ \E i \in 1..Len(events) :
           events[i] = [event |-> "WindowResizeEvent", size |-> <<400, 300>>]

\* C6: the unchanged-size test of the window_size setter rounds the request up
\* first: a request whose ceiling equals the current window size does nothing.
C6_CeilingTolerantNoOp ==
    [][(SetterStep /\ <<Ceil(op'.arg[1]), Ceil(op'.arg[2])>> = window_size)
           => NoWindowEffect]_vars

\* C7: a watcher callback writes no field of the view (configuration, window,
\* window handle, closed flag, surface) and leaves the watchdogs alone; all it does
\* is append one sample to the queue; and the queue loses samples only in
\* get_events (and in the teardown of close()).
C7_CallbacksOnlyEnqueue ==
    [][/\ (op'.name \in {"_window_focus_callback", "_window_moved_callback"})
            => /\ UNCHANGED <<window_config, window, pwc_window, closed, surface,
                              watchdogs>>
               /\ Len(queue') = Len(queue) + 1
               /\ SubSeq(queue', 1, Len(queue)) = queue
               /\ queue'[Len(queue')].type \in {PYGAME_WINDOWFOCUS, PYGAME_WINDOWMOVE}
       /\ (\E i \in 1..Len(queue) : i > Len(queue') \/ queue'[i] # queue[i])
            => op'.name \in {"get_events", "close"}]_vars

\* the moved callback has run while a poll was in progress and left its sample at
\* the end of the queue
C7_Witness ==
    /\ op.name = "_window_moved_callback"
    /\ pc = "get_events"
    /\ Len(queue) >= 1
    /\ queue[Len(queue)].type = PYGAME_WINDOWMOVE
    /\ queue[Len(queue)].by = "watcher"

\* C8: close() stops the watchdog before it tears the toolkit down: no watchdog
\* runs when pygame.quit() is about to run or has run, and no callback ever posts
\* to a toolkit that is down.
C8_WatcherStoppedBeforeTeardown ==
    /\ (pc = "close_quit" \/ ~toolkit_up) => watchdogs = {}
    /\ op.outcome # "pygame.error"

\* the toolkit is down after a run in which the watchdog posted and was re-attached
\* to a recreated window
C8_Witness ==
    /\ ~toolkit_up
    /\ closed
    /\ enqueued >= 1
    /\ os_window.id = 2
    /\ pwc_window = 2
    /\ watchdogs = {}

\* the poll that returns the samples the constructor posted: the first poll
FirstPoll ==
    /\ Returned
    /\ \E i \in 1..Len(batch) : batch[i].by = "view" /\ batch[i].type = PYGAME_WINDOWMOVE

\* C9: the first poll after construction returns a WindowResizeEvent with the
\* initial window size, a WindowMoveEvent with the initial position and a
\* ScreenSizeEvent with the monitor size.
C9_ConstructionEvents ==
    FirstPoll =>
        /\ \E i \in 1..Len(events), cfg \in Configs :
               events[i] = [event |-> "WindowResizeEvent",
                            size |-> <<cfg.width, cfg.height>>]
        /\ \E i \in 1..Len(events) :
               events[i] = [event |-> "WindowMoveEvent", position |-> InitialPosition]
        /\ \E i \in 1..Len(events) :
               events[i] = [event |-> "ScreenSizeEvent", size |-> ScreenSize]

\* the root of the tree is an svg element with integer width and height above 0
IsDocument(tree) ==
    /\ TagEndsWithSvg(tree.tag)
    /\ IntOk(Get(tree, "width")) /\ IntOf(Get(tree, "width")) > 0
    /\ IntOk(Get(tree, "height")) /\ IntOf(Get(tree, "height")) > 0

\* C10: after render() on a document of root width W and height H with a render
\* buffer of size (Bw, Bh), scaling_factor = min(Bw/W, Bh/H) and surface_offset =
\* ((Bw - W*scaling_factor)/2, (Bh - H*scaling_factor)/2), whatever the renders and
\* updates before.
C10_LetterboxTransform ==
    (op.name = "render" /\ IsDocument(surface.svg_tree)) =>
        LET W == IntOf(Get(surface.svg_tree, "width"))
            H == IntOf(Get(surface.svg_tree, "height"))
            Bw == surface.surface_size[1]
            Bh == surface.surface_size[2]
        IN /\ op.outcome = "ok"
           /\ surface.scaling_factor = RMin(Rat(Bw, W), Rat(Bh, H))
           /\ surface.surface_offset =
                  <<RHalf(RSub(R(Bw), RMul(R(W), surface.scaling_factor))),
                    RHalf(RSub(R(Bh), RMul(R(H), surface.scaling_factor)))>>

\* the 320x480 document was rendered into the 613x460 buffer: scaled by 23/24,
\* centered horizontally
C10_Witness ==
    /\ op.name = "render"
    /\ IsDocument(surface.svg_tree)
    /\ IntOf(Get(surface.svg_tree, "width")) = 320
    /\ surface.surface_size = <<613, 460>>
    /\ surface.scaling_factor = <<23, 24>>
    /\ surface.surface_offset[1] # R(0)
    /\ surface.surface_offset[2] = R(0)

\* C11: in every state just after an update(document) call that succeeded,
\* scaling_factor is the minimum of the two axis ratios buffer/svg of the stored
\* document, also when no render has run since.
C11_RecomputedOnUpdate ==
    (op.name = "update" /\ op.outcome = "ok") =>
        surface.scaling_factor =
            RMin(Rat(surface.surface_size[1], IntOf(Get(surface.svg_tree, "width"))),
                 Rat(surface.surface_size[2], IntOf(Get(surface.svg_tree, "height"))))

\* one coordinate of the point pixel_to_svg is to return: the pixel coordinate
\* less the image offset and the surface position (the centering of the buffer in
\* the window plus the scaled root position), over the scaling factor
SvgCoordinate(s, i, q) ==
    RDiv(RSub(RSub(q, s.surface_offset[i]),
              RAdd(RHalf(R(s.window_size[i] - s.surface_size[i])),
                   RMul(R(s.svg_position[i]), s.scaling_factor))),
         s.scaling_factor)

\* C12: pixel_to_svg(point) returns ((px - surface_offset.x - surface_position.x) /
\* scaling_factor, (py - surface_offset.y - surface_position.y) / scaling_factor),
\* surface_position being the root (x, y) scaled by scaling_factor plus
\* (window_size - buffer_size) / 2, and changes nothing of the surface.
C12_PixelToSvg ==
    [][(op'.name = "pixel_to_svg")
        => /\ surface' = surface
           /\ op'.outcome = "ok"
           /\ op'.result = <<SvgCoordinate(surface, 1, op'.arg[1]),
                             SvgCoordinate(surface, 2, op'.arg[2])>>]_vars

\* pixel (50, 50) mapped with the 300x920 document at root position (10, 0)
\* rendered: scaling 1/2, image offset (231.5, 0), surface position (18.5, 10)
C12_Witness ==
    /\ op.name = "pixel_to_svg"
    /\ op.arg = <<R(50), R(50)>>
    /\ surface.svg_position = <<10, 0>>
    /\ surface.scaling_factor = <<1, 2>>
    /\ surface.surface_offset = <<<<463, 2>>, R(0)>>
    /\ surface.window_size = <<640, 480>>
    /\ op.result = <<R(-400), R(80)>>

\* C13: pixel_scale_to_svg_scale scales a displacement by 1/scaling_factor: the
\* answer to a call with the vector (vx, vy) is (vx / scaling_factor,
\* vy / scaling_factor), the scaling factor being the surface's at the call.
C13_ScaleByInverse ==
    (op.name = "pixel_scale_to_svg_scale") =>
        /\ op.outcome = "ok"
        /\ op.result = <<RDiv(op.arg[1], surface.scaling_factor),
                         RDiv(op.arg[2], surface.scaling_factor)>>

\* C14: svg_to_pixel and svg_scale_to_pixel_scale are not implemented: every call,
\* for every point and in every state of the view, ends in the not-supported error
\* (NotImplementedError), returns no value and changes nothing of the view.
C14_NotSupported ==
    [][(op'.name \in {"svg_to_pixel", "svg_scale_to_pixel_scale"})
        => /\ op'.outcome = "NotImplementedError"
           /\ op'.result = None
           /\ UNCHANGED <<window_config, window, pwc_window, closed, surface,
                          toolkit_up, os_window, watchdogs, queue, pc>>]_vars

\* both have been called on a view that has rendered a document scaled by 2
C14_Witness ==
    /\ op.name = "svg_scale_to_pixel_scale"
    /\ op.arg = <<R(100), R(100)>>
    /\ op.outcome = "NotImplementedError"
    /\ surface.svg_tree = FlatDocument
    /\ surface.scaling_factor = R(2)

\* the attribute holds a number (an integer or a decimal numeral)
Numeric(a) == FloatOk(a)

\* C15: update(document) fails, the error raised to the caller, whenever the root
\* is not an svg element or lacks a numeric width or a numeric height, and it
\* succeeds for every document whose root is an svg element with a numeric width
\* and a numeric height. (update stores the document before it validates it, so
\* the stored tree is the argument of the call.)
C15_UpdateValidates ==
    (op.name = "update") =>
        (op.outcome = "ok" <=>
            /\ TagEndsWithSvg(surface.svg_tree.tag)
            /\ Numeric(Get(surface.svg_tree, "width"))
            /\ Numeric(Get(surface.svg_tree, "height")))

\* the point elements_under tests, in svg space: the argument, or its image under
\* pixel_to_svg when the call asked for the transformation
HitPoint ==
    IF op.arg.transform
    THEN <<SvgCoordinate(surface, 1, op.arg.point[1]),
           SvgCoordinate(surface, 2, op.arg.point[2])>>
    ELSE op.arg.point

\* x <= px <= x + width and y <= py <= y + height
RectContains(x, y, width, height, p) ==
    /\ RLe(R(x), p[1]) /\ RLe(p[1], R(x + width))
    /\ RLe(R(y), p[2]) /\ RLe(p[2], R(y + height))

\* (px - cx)^2 + (py - cy)^2 <= r^2
CircleContains(cx, cy, r, p) ==
    RLe(RAdd(RMul(RSub(p[1], R(cx)), RSub(p[1], R(cx))),
             RMul(RSub(p[2], R(cy)), RSub(p[2], R(cy)))),
        R(r * r))

\* C16: shape containment is boundary-inclusive. On the document holding the rect
\* r1 at (0, 0, 100, 100) and the circle c1 at (200, 200) of radius 50,
\* elements_under lists r1 iff 0 <= px <= 100 and 0 <= py <= 100, and c1 iff
\* (px-200)^2 + (py-200)^2 <= 50^2, r1 before c1; so (50, 50) and the corner
\* (100, 100) give [r1], (150, 150) gives [], and (250, 200), on the circle, [c1].
C16_BoundaryInclusive ==
    (op.name = "elements_under" /\ surface.svg_tree = FlatDocument) =>
        /\ op.outcome = "ok"
        /\ op.result =
              (IF RectContains(0, 0, 100, 100, HitPoint) THEN <<"r1">> ELSE <<>>)
              \o (IF CircleContains(200, 200, 50, HitPoint) THEN <<"c1">> ELSE <<>>)
        /\ ~op.arg.transform =>
              /\ op.arg.point \in {<<R(50), R(50)>>, <<R(100), R(100)>>}
                    => op.result = <<"r1">>
              /\ op.arg.point = <<R(150), R(150)>> => op.result = <<>>
              /\ op.arg.point = <<R(250), R(200)>> => op.result = <<"c1">>

\* the corner of r1 has been asked for, in svg space
C16_Witness ==
    /\ op.name = "elements_under"
    /\ surface.svg_tree = FlatDocument
    /\ ~op.arg.transform
    /\ op.arg.point = <<R(100), R(100)>>
    /\ op.result = <<"r1">>

\* the ids of the matching elements of GroupDocument in document order, for the
\* point p: the root spans 10 <= px <= 310, 0 <= py <= 920 and moves its content
\* by (10, 0); the groups match every point; the second group has no id
GroupPreOrder(p) ==
    IF RLe(R(10), p[1]) /\ RLe(p[1], R(310)) /\ RLe(R(0), p[2]) /\ RLe(p[2], R(920))
    THEN <<"root", "group">>
         \o (IF RectContains(0, 0, 100, 100, <<RSub(p[1], R(10)), p[2]>>)
             THEN <<"child">> ELSE <<>>)
         \o (IF RectContains(50, 50, 100, 100, <<RSub(p[1], R(10)), p[2]>>)
             THEN <<"child2">> ELSE <<>>)
    ELSE <<>>

\* C17: elements_under returns the ids of the matching elements in document
\* pre-order (an element before its descendants, siblings in document order); a
\* matching element without id adds no entry while its children are visited
\* (child2 under the group without id), and the children of an element that does
\* not match are never visited: in NestedDocument the inner svg holds a rect on
\* which the containment test raises, so the call raises exactly when the point
\* lies in the inner svg and answers from the rest of the tree otherwise.
C17_PreOrder ==
    (op.name = "elements_under") =>
        /\ surface.svg_tree = GroupDocument =>
              op.outcome = "ok" /\ op.result = GroupPreOrder(HitPoint)
        /\ surface.svg_tree = NestedDocument =>
              IF RectContains(200, 200, 100, 100, HitPoint)
              THEN op.outcome = "TypeError"
              ELSE /\ op.outcome = "ok"
                   /\ op.result = IF RectContains(0, 0, 100, 100, HitPoint)
                                  THEN <<"r2">> ELSE <<>>

\* a point under the root, the group, its rect and the rect of the group without id
C17_Witness ==
    /\ op.name = "elements_under"
    /\ surface.svg_tree = GroupDocument
    /\ op.result = <<"root", "group", "child", "child2">>


\* the event mapping table: the domain event variant listed for a raw sample kind
Variant(type) ==
    CASE type \in {PYGAME_KEYDOWN, PYGAME_KEYUP} -> "KeyEvent"
      [] type \in {PYGAME_MOUSEDOWN, PYGAME_MOUSEUP} -> "MouseButtonEvent"
      [] type = PYGAME_MOUSEMOTION -> "MouseMotionEvent"
      [] type = PYGAME_QUIT -> "WindowCloseEvent"
      [] type = PYGAME_WINDOWOPEN -> "WindowOpenEvent"
      [] type = PYGAME_WINDOWFOCUS -> "WindowFocusEvent"
      [] type = PYGAME_WINDOWMOVE -> "WindowMoveEvent"
      [] type = PYGAME_WINDOWRESIZE -> "WindowResizeEvent"
      [] OTHER -> "none"

\* C18: every raw sample of a kind of the event mapping table yields exactly one
\* domain event of the listed variant: when get_events returns, the returned list
\* has one event per sample of the drained batch, in the batch's order, the i-th
\* of the variant listed for the i-th sample's kind (open -> WindowOpenEvent,
\* quit -> WindowCloseEvent, focus -> WindowFocusEvent, move -> WindowMoveEvent).
C18_OneEventPerSample ==
    Returned =>
        /\ Len(events) = Len(batch)
        /\ \A i \in 1..Len(batch) :
              i <= Len(events) => events[i].event = Variant(batch[i].type)

\* pixel_to_svg(q) under the surface's transform state, q a raw pixel position
SvgOfPixel(q) ==
    <<SvgCoordinate(surface, 1, R(q[1])), SvgCoordinate(surface, 2, R(q[2]))>>

\* the ids under the svg point p on the stored document: the view shows
\* GroupDocument or, before the first update, the empty svg root
TargetAt(p) ==
    IF surface.svg_tree = GroupDocument THEN GroupPreOrder(p) ELSE <<>>

\* the MouseButtonEvent the mapping table describes for a mouse down/up sample e
ButtonEventFor(e) ==
    [event |-> "MouseButtonEvent",
     button |-> CASE e.button = 1 -> "BUTTON_LEFT"
                  [] e.button = 2 -> "BUTTON_MIDDLE"
                  [] e.button = 3 -> "BUTTON_RIGHT",
     status |-> IF e.type = PYGAME_MOUSEDOWN THEN "DOWN" ELSE "UP",
     position_raw |-> e.pos,
     position |-> SvgOfPixel(e.pos),
     target |-> TargetAt(SvgOfPixel(e.pos))]

IsButtonSample(e) ==
    e.type \in {PYGAME_MOUSEDOWN, PYGAME_MOUSEUP} /\ e.button \in {1, 2, 3}

RECURSIVE ButtonEventsFor(_)
ButtonEventsFor(samples) ==
    IF Len(samples) = 0 THEN <<>>
    ELSE (IF IsButtonSample(Head(samples)) THEN <<ButtonEventFor(Head(samples))>>
          ELSE <<>>) \o ButtonEventsFor(Tail(samples))

\* C19: for every mouse down/up sample of the drained batch with button 1, 2 or 3
\* at raw position q, get_events returns a MouseButtonEvent with button LEFT,
\* MIDDLE or RIGHT, status DOWN or UP by the sample's kind, position_raw = q,
\* position = pixel_to_svg(q) under the transform state at the poll and target =
\* the ids under that position on the stored document; the MouseButtonEvents of
\* the returned list are exactly these, in the samples' order.
C19_MouseButtonEvent ==
    Returned =>
        SelectSeq(events, LAMBDA ev : ev.event = "MouseButtonEvent")
            = ButtonEventsFor(batch)

\* a left button press on the rendered document, over four nested elements
C19_Witness ==
    /\ Returned
    /\ surface.scaling_factor = Rat(1, 2)
    /\ \E i \in 1..Len(events) :
          events[i] = [event |-> "MouseButtonEvent", button |-> "BUTTON_LEFT",
                       status |-> "DOWN", position_raw |-> <<280, 50>>,
                       position |-> <<R(60), R(80)>>,
                       target |-> <<"root", "group", "child", "child2">>]

\* a step of View.__init__ or of the window_size setter that called
\* _setup_pwc_window: the constructor's attach step, or a setter step that
\* created a new OS window
AttachStep ==
    \/ pc = "ctor_setup_pwc" /\ pc' # pc
    \/ op'.name = "set_window_size" /\ os_window'.id # os_window.id

\* C20: attaching the watcher matches the OS window by its title and fails with an
\* error, no watcher started, when no window or more than one window carries the
\* title; with exactly one match the watcher is started on that window. In every
\* state of the view, _setup_pwc_window called with n windows of the title raises
\* ValueError and starts nothing for n = 0 and n > 1, and for n = 1 returns the
\* found window with a watchdog running on it; and every attach step of the view
\* either fails leaving no watchdog running and the handle as it was, or leaves
\* exactly the watchdog of the new window running and the handle on that window.
C20_WatcherAttach ==
    /\ [](\A n \in TitleMatches :
            LET r == SetupPwcWindow(pwc_window, watchdogs, os_window.id, n)
            IN IF n = 1
               THEN /\ r.outcome = "ok"
                    /\ r.pwc_window = os_window.id
                    /\ os_window.id \in r.watchdogs
                    /\ r.watchdogs \subseteq watchdogs \cup {os_window.id}
               ELSE /\ r.outcome = "ValueError"
                    /\ r.watchdogs \subseteq watchdogs
                    /\ r.pwc_window = pwc_window)
    /\ [][AttachStep =>
            IF op'.outcome = "ok"
            THEN watchdogs' = {os_window'.id} /\ pwc_window' = os_window'.id
            ELSE /\ op'.outcome = "ValueError"
                 /\ watchdogs' = {}
                 /\ pwc_window' = pwc_window]_vars

\* the setter has created window 2 and the attach failed: the watcher of window 1
\* is stopped, none is started, the handle still names window 1
C20_Witness ==
    /\ op.name = "set_window_size" /\ op.outcome = "ValueError"
    /\ os_window.id = 2
    /\ pwc_window = 1
    /\ watchdogs = {}

\* C21: hit-testing raises whenever a rotation or translation transform component
\* is met on a tested node (svg container, rect or circle): a call on a document
\* whose tested nodes carry rotate(...) or translate(...) never returns a list.
\* The root of both documents matches every point, so its children (the rotated
\* rect and the translated circle; the rotated inner svg) are tested in each call.
C21_RotationTranslationRaise ==
    (op.name = "elements_under"
        /\ surface.svg_tree \in {RotatedShapesDocument, RotatedSvgDocument})
    => op.outcome # "ok"

\* the point p after a node at (x, y) with transform="scale(k)" has applied its
\* offset and its scale
Scaled(p, x, y, k) == <<RDiv(RSub(p[1], R(x)), R(k)), RDiv(RSub(p[2], R(y)), R(k))>>

\* C25: a scale(...) transform on an svg container, rect or circle is applied to
\* the test point, with the node's offsets, before the node's containment test
\* and before the point goes to its children, whether or not the node declares x
\* and y. On ScaledDocument (all three nodes scale by 2): the inner svg without
\* x/y matches and hands p/2 to its rect (0, 0, 40, 40); the scaled rect
\* (0, 0, 40, 40) is tested at p/2; the inner svg at (100, 100) of size 50x50 is
\* tested at (p - (100, 100))/2 and hands that point to its rect (0, 0, 30, 30).
C25_ScaleApplied ==
    (op.name = "elements_under" /\ surface.svg_tree = ScaledDocument) =>
        /\ op.outcome = "ok"
        /\ op.result =
              <<"scaled">>
              \o (IF RectContains(0, 0, 40, 40, Scaled(HitPoint, 0, 0, 2))
                  THEN <<"in">> ELSE <<>>)
              \o (IF RectContains(0, 0, 40, 40, Scaled(HitPoint, 0, 0, 2))
                  THEN <<"big">> ELSE <<>>)
              \o (IF RectContains(0, 0, 50, 50, Scaled(HitPoint, 100, 100, 2))
                  THEN <<"zoom">>
                       \o (IF RectContains(0, 0, 30, 30, Scaled(HitPoint, 100, 100, 2))
                           THEN <<"z">> ELSE <<>>)
                  ELSE <<>>)

\* C26: an element of an unsupported kind short-circuits its branch: it adds no
\* id, none of its descendants is visited or reported, and its siblings are still
\* tested. On UnsupportedDocument the text element "label" and the rect inside it
\* never appear, and the rect after it appears iff it contains the point.
C26_UnsupportedShortCircuits ==
    (op.name = "elements_under" /\ surface.svg_tree = UnsupportedDocument) =>
        /\ op.outcome = "ok"
        /\ op.result = IF RectContains(0, 0, 100, 100, HitPoint)
                       THEN <<"after">> ELSE <<>>

\* a point inside both the rect under the text element and the rect after it
C26_Witness ==
    /\ op.name = "elements_under"
    /\ surface.svg_tree = UnsupportedDocument
    /\ op.arg = [point |-> <<R(50), R(50)>>, transform |-> FALSE]
    /\ op.result = <<"after">>

\* the samples of a batch whose kind has an entry in the lookup table
Known(samples) == SelectSeq(samples, LAMBDA e : e.type \in EVENT_MAP)

\* what the conversion loop gives for the samples: the events and the error count
Conversion(samples) ==
    ConvertLoop(surface, samples, [events |-> <<>>, logged |-> 0, origin |-> <<>>])

SameOutcome(r, known) ==
    /\ events = r.events
    /\ logged = r.logged
    /\ Len(events) + logged = Len(known)

\* C27: a sample whose kind has no entry in EVENT_MAP is dropped silently: it is
\* taken off the queue with the rest of the batch (get_events drains the whole
\* queue), it yields no event and no logged error, and the events and errors of the
\* other samples are those the batch without it would have given, in the same
\* order; every returned event or logged error belongs to a sample of a known kind.
C27_UnmappedDropped ==
    /\ [](Returned => SameOutcome(Conversion(Known(batch)), Known(batch)))
    /\ [][(op'.name = "get_events" /\ op'.arg = 301)
            => (batch' = queue /\ queue' = <<>>)]_vars

\* a batch with a sample of an unknown kind between a quit and a left click
C27_Witness ==
    /\ Returned
    /\ Len(batch) = 3
    /\ batch[1].type = PYGAME_QUIT
    /\ batch[2].type = "ACTIVEEVENT"
    /\ batch[3].type = PYGAME_MOUSEDOWN /\ batch[3].button = 1
    /\ Len(events) = 2
    /\ events[1].event = "WindowCloseEvent" /\ events[2].event = "MouseButtonEvent"
    /\ logged = 0
    /\ queue = <<>>

\* C28: update is atomic on failure: a call of update that fails leaves the stored
\* document, its serialized source, the svg size and the svg position as they
\* were, so that render and elements_under go on using the last valid document.
C28_UpdateAtomic ==
    [][(op'.name = "update" /\ op'.outcome # "ok")
        => /\ surface'.svg_tree = surface.svg_tree
           /\ surface'.svg_source = surface.svg_source
           /\ surface'.svg_size = surface.svg_size
           /\ surface'.svg_position = surface.svg_position]_vars

\* C29: set_window_size is atomic on failure: when re-attaching the watcher fails,
\* the view is left as before the call: the stored window size still equals the
\* size of the actual window, a watcher is still running, and no resize event was
\* enqueued.
C29_SetWindowSizeAtomic ==
    [][(op'.name = "set_window_size" /\ op'.outcome = "ValueError")
        => /\ window_size = os_window.size => window_size' = os_window'.size
           /\ watchdogs # {} => watchdogs' # {}
           /\ queue' = queue]_vars

\* the WindowResizeEvents of a list of events, in order
ResizeEvents(evs) == SelectSeq(evs, LAMBDA ev : ev.event = "WindowResizeEvent")

\* no resize has happened that the polls have not yet reported
NoResizePending ==
    \A i \in 1..Len(queue) : queue[i].type # PYGAME_WINDOWRESIZE

\* C30: the stored window size agrees with the event stream: when get_events has
\* returned a WindowResizeEvent of size s, its last, and no later resize is
\* waiting in the queue, view.window_size = s, whether the resize was made through
\* the window_size setter or by the user.
C30_WindowSizeFollowsEvents ==
    (Returned /\ ResizeEvents(events) # <<>> /\ NoResizePending)
    => window_size = ResizeEvents(events)[Len(ResizeEvents(events))].size

\* C22: when a WindowCloseEvent is executed by __update__ and
\* terminate_on_window_close is True, on_exit_event runs and the ambient is
\* flagged for termination (_is_alive becomes False), whichever user-input types
\* the ambient accepts; with terminate_on_window_close False it stays alive.
C22_CloseTerminates ==
    [][(call'.name = "__update__" /\ call'.n = call.n + 1
            /\ call'.arg.event = "WindowCloseEvent")
        => IF ambient.terminate_on_window_close
           THEN ambient'.exits = ambient.exits + 1 /\ ~ambient'.is_alive
           ELSE ambient'.is_alive = ambient.is_alive]_vars

\* the action is neither an XMLQuery nor of a type the ambient accepts as user input
Unknown(action) == action.event # "Update" /\ action.event \notin ambient.user_input_types

\* C23: __update__ never raises to its caller: every call returns an observation
\* (or None, from on_user_input_event); an action that is neither an XMLQuery nor
\* an accepted user-input type goes to on_unknown_event and the ValueError raised
\* there is returned as an ErrorActiveObservation, as is every exception raised
\* while the action is handled.
C23_UpdateNeverRaises ==
    (call.name = "__update__") =>
        /\ call.outcome \in {"ActiveObservation", "ErrorActiveObservation", "None"}
        /\ Unknown(call.arg) =>
              call.outcome = "ErrorActiveObservation" /\ call.exception = "ValueError"
        /\ call.exception # "none" => call.outcome = "ErrorActiveObservation"
        /\ (call.arg.event = "Update" /\ call.arg.super = "raises")
              => call.exception = "XMLError"

\* an object of an unknown type has been executed
C23_Witness ==
    /\ call.name = "__update__"
    /\ call.arg = [event |-> "Ping"]
    /\ call.outcome = "ErrorActiveObservation"
    /\ call.exception = "ValueError"

\* the number an attribute of the root holds
Attr(a, n) == a = Num(R(n))

\* C24: constructed with svg_size None, the root's width and height remain
\* undefined; with svg_position None the root's x and y are both zero; an explicit
\* svg_size or svg_position is what the root holds after construction.
C24_RootAttributes ==
    (call.name = "__init__") =>
        /\ IF IsNone(call.arg.svg_size)
           THEN IsNone(ambient.root.width) /\ IsNone(ambient.root.height)
           ELSE /\ Attr(ambient.root.width, call.arg.svg_size.pair[1])
                /\ Attr(ambient.root.height, call.arg.svg_size.pair[2])
        /\ IF IsNone(call.arg.svg_position)
           THEN Attr(ambient.root.x, 0) /\ Attr(ambient.root.y, 0)
           ELSE /\ Attr(ambient.root.x, call.arg.svg_position.pair[1])
                /\ Attr(ambient.root.y, call.arg.svg_position.pair[2])

\* the ids of a returned list
Ids(result) == {result[i] : i \in 1..Len(result)}

\* C31: hit-testing agrees with rendering for a root svg with declared x, y: the
\* window pixel q is drawn from the svg point p with q = surface_position +
\* surface_offset + scaling_factor * p, and elements_under(q, transform=True)
\* lists a rect that is a direct child of the root iff that p lies in the rect.
\* On OffsetDocument (root at (10, 20), rect r1 at (0, 0, 100, 100)):
C31_HitTestAgreesWithRender ==
    (op.name = "elements_under" /\ op.arg.transform
        /\ surface.svg_tree = OffsetDocument)
    => /\ op.outcome = "ok"
       /\ ("r1" \in Ids(op.result)) <=> RectContains(0, 0, 100, 100, HitPoint)

\* C32: an svg container is reported and descended into only when the point lies
\* within its declared bounds [x, x+width] x [y, y+height], x and y taken as 0
\* when absent: outside them neither its id nor a descendant's id is returned. In
\* NestedDocument the container "inner" is at (200, 200) with size 100x100 and
\* holds "deep"; in UnplacedDocument the container "box" declares no x and y and
\* the size 100x100 and holds "wide".
C32_ContainerBounds ==
    (op.name = "elements_under" /\ op.outcome = "ok") =>
        /\ (surface.svg_tree = NestedDocument
                /\ ~RectContains(200, 200, 100, 100, HitPoint))
              => Ids(op.result) \cap {"inner", "deep"} = {}
        /\ (surface.svg_tree = UnplacedDocument
                /\ ~RectContains(0, 0, 100, 100, HitPoint))
              => Ids(op.result) \cap {"box", "wide"} = {}

\* a mouse down/up sample whose button MOUSE_BUTTON_MAP does not hold
OtherButton(e) ==
    e.type \in {PYGAME_MOUSEDOWN, PYGAME_MOUSEUP} /\ e.button \notin {1, 2, 3}

\* C33: a mouse down/up sample whose button id is outside {1, 2, 3} produces no
\* MouseButtonEvent: its construction fails, get_events catches and logs the
\* failure (one logged error per such sample), and the events and logged errors
\* of the rest of the batch are those the batch without these samples gives.
C33_OtherButtonDropped ==
    Returned =>
        LET rest == SelectSeq(batch, LAMBDA e : ~OtherButton(e))
        IN /\ \A i \in 1..Len(batch) :
                  OtherButton(batch[i]) => ~CallEventMap(surface, batch[i]).ok
           /\ events = Conversion(rest).events
           /\ logged = Conversion(rest).logged + (Len(batch) - Len(rest))
           /\ Len(SelectSeq(events, LAMBDA ev : ev.event = "MouseButtonEvent"))
                  = Len(SelectSeq(rest, LAMBDA e : e.type = PYGAME_MOUSEDOWN))

\* a wheel click between a left click and a quit: two events, one logged error
C33_Witness ==
    /\ Returned
    /\ Len(batch) = 3
    /\ batch[1].type = PYGAME_MOUSEDOWN /\ batch[1].button = 1
    /\ batch[2].type = PYGAME_MOUSEDOWN /\ batch[2].button = 4
    /\ batch[3].type = PYGAME_QUIT
    /\ Len(events) = 2
    /\ events[1].event = "MouseButtonEvent" /\ events[1].button = "BUTTON_LEFT"
    /\ events[2].event = "WindowCloseEvent"
    /\ logged = 1

\* the poll has just returned a WindowCloseEvent
ReturnedClose ==
    Returned /\ \E i \in 1..Len(events) : events[i].event = "WindowCloseEvent"

\* C34: get_events changes nothing but the input queue: over each of its steps
\* the stored window configuration, the window and its handle, the watchdogs, the
\* closed flag and the surface (document and transform state) stay as they were;
\* and a poll that returns a WindowCloseEvent for a quit sample leaves the view
\* open: is_open is True and render can be called (the host is not inside another
\* call, the toolkit is up and the view's window is the one on the screen).
C34_PollOnlyDrains ==
    /\ [][(op'.name = "get_events")
            => UNCHANGED <<window_config, window, pwc_window, watchdogs, closed,
                           surface, toolkit_up>>]_vars
    /\ [](ReturnedClose =>
            (is_open /\ pc = "idle" /\ toolkit_up /\ window = os_window.id))

\* a poll has returned the WindowCloseEvent of a quit sample on a view that shows
\* a rendered document: the view is open, its watchdog running
C34_Witness ==
    /\ ReturnedClose
    /\ is_open
    /\ watchdogs = {os_window.id}
    /\ surface.svg_size = <<640, 480>>
    /\ surface.window_size = <<640, 480>>

\* C35: at most one watchdog runs at any time: over construction, window_size
\* assignments and close(), a step that starts a watchdog leaves none of the
\* watchdogs that ran before it running, and once close() has stopped the
\* watchdog (line 320) none runs.
C35_OneWatcher ==
    /\ [](Cardinality(watchdogs) <= 1)
    /\ []((closed /\ pc # "close_stop") => watchdogs = {})
    /\ [][(watchdogs' \ watchdogs # {}) => (watchdogs' \cap watchdogs = {})]_vars

\* the view was closed after two window_size assignments had recreated the
\* window: the handle is on the third window and no watchdog runs
C35_Witness ==
    /\ closed
    /\ pc = "idle"
    /\ os_window.id = 3
    /\ pwc_window = 3
    /\ watchdogs = {}

\* C36: the view's window configuration is isolated from its callers. The view
\* holds an object of its own, not the one passed to the constructor; the passed
\* object keeps the fields it was passed with through the fullscreen override and
\* every resize; a read of window_config hands out a new object with the stored
\* fields; and writing into an object that was handed out changes neither the
\* stored configuration nor view.window_size (so nor any later window_config).
C36_ConfigIsolated ==
    /\ [](host.config_is # "caller" /\ host.caller = host.passed)
    /\ [][(op'.name = "window_config")
            => /\ host'.returned = window_config
               /\ host'.returned_is \notin {host.config_is, "caller"}
               /\ window_config' = window_config]_vars
    /\ [][(op'.name = "mutate_returned")
            => /\ window_config' = window_config
               /\ window_size' = window_size
               /\ host'.caller = host.caller]_vars

\* a fullscreen view on the 800x600 screen, resized to 400x300 since: the host
\* has written 100x100 into the configuration it had read, and its own object
\* still holds 640x480
C36_Witness ==
    /\ op.name = "mutate_returned"
    /\ window_config.fullscreen
    /\ window_size = <<400, 300>>
    /\ host.returned.width = 100
    /\ host.caller.width = 640 /\ host.caller.height = 480

\* the step is a call of __update__
Executes == call'.name = "__update__" /\ call'.n = call.n + 1

\* the places of a call in the trace of the last __update__
Places(name) == {i \in 1..Len(ambient'.trace) : ambient'.trace[i] = name}

\* C37: __update__ publishes an action exactly when its handling completed
\* without exception. A call that ends without exception (every XML query that
\* XMLAmbient does not raise on, every user-input event of an accepted type) has
\* published the action once, as its last call, after the handler and, for a
\* WindowCloseEvent, after on_exit_event; a call whose handling raised has
\* published nothing.
C37_PublishedIffHandled ==
    [][Executes =>
        /\ (call'.exception = "none") <=>
              \/ (call'.arg.event = "Update" /\ call'.arg.super # "raises")
              \/ call'.arg.event \in ambient.user_input_types
        /\ IF call'.exception = "none"
           THEN /\ ambient'.published = ambient.published + 1
                /\ Places("publish") = {Len(ambient'.trace)}
                /\ Len(ambient'.trace) >= 2
                /\ ambient'.trace[1] \in {"XMLAmbient.__update__", "on_user_input_event"}
                /\ call'.arg.event = "WindowCloseEvent"
                      => Places("on_exit_event") = {Len(ambient'.trace) - 1}
           ELSE /\ ambient'.published = ambient.published
                /\ Places("publish") = {}]_vars

\* an accepted WindowCloseEvent has been executed after a call that raised: the
\* handler, the exit callback and the publication ran in this order, and the
\* action is the second one published since construction
C37_Witness ==
    /\ call.name = "__update__"
    /\ call.n = 2
    /\ call.arg.event = "WindowCloseEvent"
    /\ ambient.trace = <<"on_user_input_event", "on_exit_event", "publish">>
    /\ ambient.published = 2

====
